---- MODULE Spec2Model ----
(***************************************************************************)
(* Azure Monitor exporter: the signal-iteration drivers (AcceptLogs,       *)
(* AcceptMetrics), the visitors bound to the transport channel and the     *)
(* exporter facades (onLogData, onMetricData), and the translators          *)
(* (getSeverityLevel, logRecordToEnvelope, metricToEnvelopes).              *)
(*                                                                         *)
(* A call walks a batch Resource -> InstrumentationLibrary -> Record.  A   *)
(* step of a call is one call of visit together with the loop heads the    *)
(* driver runs up to its next call of visit, or up to its return.          *)
(***************************************************************************)
EXTENDS Integers, Sequences, FiniteSets, TLC

VARIABLES calls, sent, translation

vars == <<calls, sent, translation>>

(***************************************************************************)
(* Bounds of the inputs.  A caller builds a batch of at most MaxNodes       *)
(* container elements (resource elements, instrumentation-library         *)
(* elements and leaf records together); a test visitor answers false on    *)
(* its MaxFailAt-th call at the latest.                                    *)
(***************************************************************************)
MaxNodes == 6
MaxFailAt == 2

\* The calls that may be in flight.  Spec runs call 1 only.
Calls == {1, 2}

(***************************************************************************)
(* The pdata containers.  Every pdata wrapper answers IsNil(); an absent   *)
(* element has no children.  A leaf record is a log record or a metric;    *)
(* kind "faas" is a record that carries the attribute faas.trigger.        *)
(***************************************************************************)
RecordKinds == {"rec", "faas"}

NilRecord == [isNil |-> TRUE, kind |-> "none"]

Records == {NilRecord} \cup {[isNil |-> FALSE, kind |-> kd] : kd \in RecordKinds}

NilLibrary == [isNil |-> TRUE, recs |-> <<>>]

EmptyLibrary == [isNil |-> FALSE, recs |-> <<>>]

NilResourceElement == [isNil |-> TRUE, resourceNil |-> TRUE, ils |-> <<>>]

\* a resource element as Resize leaves it (rn) or after Resource().InitEmpty()
EmptyResourceElement(rn) == [isNil |-> FALSE, resourceNil |-> rn, ils |-> <<>>]

\* the number of container elements of a batch
RECURSIVE LibraryNodes(_)
LibraryNodes(ls) ==
    IF Len(ls) = 0 THEN 0 ELSE 1 + Len(Head(ls).recs) + LibraryNodes(Tail(ls))

RECURSIVE Nodes(_)
Nodes(b) ==
    IF Len(b) = 0 THEN 0 ELSE 1 + LibraryNodes(Head(b).ils) + Nodes(Tail(b))

(***************************************************************************)
(* Errors.  consumererror.Permanent wraps an error and marks it permanent. *)
(***************************************************************************)
NoError == [isNil |-> TRUE, permanent |-> FALSE, msg |-> ""]

errUnsupportedLogRecordType ==
    [isNil |-> FALSE, permanent |-> FALSE, msg |-> "unsupported LogRecord type"]

Permanent(e) == [isNil |-> FALSE, permanent |-> TRUE, msg |-> e.msg]

(***************************************************************************)
(* The iteration drivers.  Each operator is one loop head of the driver:   *)
(* "exit" leaves the loop, "skip" is a continue, "enter" goes one level    *)
(* down and "visit" calls the visitor.                                     *)
(***************************************************************************)
AcceptLogsResource(b, i) ==
    IF ~(i <= Len(b)) THEN "exit"
    ELSE IF b[i].isNil THEN "skip"
    ELSE IF b[i].resourceNil THEN "skip"
    ELSE "enter"

\* mutant: an empty leaf slice ends the loop over the library elements
AcceptLogsLibrary_BreakOnEmpty(b, i, j) ==
    IF ~(j <= Len(b[i].ils)) THEN "exit"
    ELSE IF b[i].ils[j].isNil THEN "skip"
    ELSE IF Len(b[i].ils[j].recs) = 0 THEN "exit"
    ELSE "enter"

AcceptLogsLibrary(b, i, j) ==
    IF ~(j <= Len(b[i].ils)) THEN "exit"
    ELSE IF b[i].ils[j].isNil THEN "skip"
    ELSE IF Len(b[i].ils[j].recs) = 0 THEN "skip"
    ELSE "enter"

\* mutant: the IsNil test of the leaf record is missing
AcceptLogsRecord_VisitNil(b, i, j, k) ==
    IF ~(k <= Len(b[i].ils[j].recs)) THEN "exit"
    ELSE "visit"

AcceptLogsRecord(b, i, j, k) ==
    IF ~(k <= Len(b[i].ils[j].recs)) THEN "exit"
    ELSE IF b[i].ils[j].recs[k].isNil THEN "skip"
    ELSE "visit"

\* mutant: the answer of the visitor is ignored
AcceptLogsAfterVisit_Ignored(ok) == "next"

AcceptLogsAfterVisit(ok) == IF ~ok THEN "return" ELSE "next"

AcceptMetricsResource(b, i) ==
    IF ~(i <= Len(b)) THEN "exit"
    ELSE IF b[i].isNil THEN "skip"
    ELSE IF b[i].resourceNil THEN "skip"
    ELSE "enter"

AcceptMetricsLibrary(b, i, j) ==
    IF ~(j <= Len(b[i].ils)) THEN "exit"
    ELSE IF b[i].ils[j].isNil THEN "skip"
    ELSE IF Len(b[i].ils[j].recs) = 0 THEN "skip"
    ELSE "enter"

AcceptMetricsRecord(b, i, j, k) ==
    IF ~(k <= Len(b[i].ils[j].recs)) THEN "exit"
    ELSE IF b[i].ils[j].recs[k].isNil THEN "skip"
    ELSE "visit"

AcceptMetricsAfterVisit(ok) == IF ~ok THEN "return" ELSE "next"

\* the loop heads of the driver a call runs
ResourceHead(drv, b, i) ==
    IF drv = "logs" THEN AcceptLogsResource(b, i) ELSE AcceptMetricsResource(b, i)

LibraryHead(drv, b, i, j) ==
    IF drv = "logs" THEN AcceptLogsLibrary(b, i, j) ELSE AcceptMetricsLibrary(b, i, j)

RecordHead(drv, b, i, j, k) ==
    IF drv = "logs" THEN AcceptLogsRecord(b, i, j, k) ELSE AcceptMetricsRecord(b, i, j, k)

AfterVisit(drv, ok) ==
    IF drv = "logs" THEN AcceptLogsAfterVisit(ok) ELSE AcceptMetricsAfterVisit(ok)

(***************************************************************************)
(* The record counts of pdata: LogRecordCount and MetricCount add up the   *)
(* lengths of the leaf slices of every present instrumentation-library     *)
(* element of every present resource element.                              *)
(***************************************************************************)
RECURSIVE SumLens(_)
SumLens(ls) ==
    IF Len(ls) = 0 THEN 0
    ELSE (IF Head(ls).isNil THEN 0 ELSE Len(Head(ls).recs)) + SumLens(Tail(ls))

RECURSIVE LogRecordCount(_)
LogRecordCount(b) ==
    IF Len(b) = 0 THEN 0
    ELSE (IF Head(b).isNil THEN 0 ELSE SumLens(Head(b).ils)) + LogRecordCount(Tail(b))

MetricCount(b) == LogRecordCount(b)

(***************************************************************************)
(* The translators, as far as the facades depend on them: the envelope of  *)
(* a record (IKey not yet set) and the error.  No return statement of      *)
(* either translator returns an error: logRecordToEnvelope ends in         *)
(* "return envelope, nil", and errUnsupportedLogRecordType is declared but *)
(* returned nowhere.  metricVisitor.visit names its translator             *)
(* metricToEnvelope and uses its result as one envelope; the translator of *)
(* the sources is metricToEnvelopes, whose every return has a nil error.   *)
(***************************************************************************)
NewEnvelope == [IKey |-> "", record |-> NilRecord]

logRecordToEnvelope(logRecord) ==
    [envelope |-> [NewEnvelope EXCEPT !.record = logRecord], err |-> NoError]

metricToEnvelope(metric) ==
    [envelope |-> [NewEnvelope EXCEPT !.record = metric], err |-> NoError]

(***************************************************************************)
(* The visitors.  A visit returns the visitor after the call, the answer   *)
(* ok and the envelopes handed to transportChannel.Send, in order.         *)
(***************************************************************************)
NewVisitor == [processed |-> 0, err |-> NoError]

\* mutant: processed is not counted
logVisitorVisit_NotCounted(v, cfg, logRecord) ==
    LET t == logRecordToEnvelope(logRecord) IN
    IF ~t.err.isNil
    THEN [v |-> [v EXCEPT !.err = Permanent(t.err)], ok |-> FALSE, send |-> <<>>]
    ELSE [v |-> v, ok |-> TRUE,
          send |-> <<[t.envelope EXCEPT !.IKey = cfg.InstrumentationKey]>>]

\* mutant: the envelope is handed to Send twice
logVisitorVisit_SentTwice(v, cfg, logRecord) ==
    LET t == logRecordToEnvelope(logRecord) IN
    IF ~t.err.isNil
    THEN [v |-> [v EXCEPT !.err = Permanent(t.err)], ok |-> FALSE, send |-> <<>>]
    ELSE [v |-> [v EXCEPT !.processed = @ + 1], ok |-> TRUE,
          send |-> <<[t.envelope EXCEPT !.IKey = cfg.InstrumentationKey],
                     [t.envelope EXCEPT !.IKey = cfg.InstrumentationKey]>>]

\* mutant: the instrumentation key is not applied to the envelope
logVisitorVisit_NoIKey(v, cfg, logRecord) ==
    LET t == logRecordToEnvelope(logRecord) IN
    IF ~t.err.isNil
    THEN [v |-> [v EXCEPT !.err = Permanent(t.err)], ok |-> FALSE, send |-> <<>>]
    ELSE [v |-> [v EXCEPT !.processed = @ + 1], ok |-> TRUE, send |-> <<t.envelope>>]

logVisitorVisit(v, cfg, logRecord) ==
    LET t == logRecordToEnvelope(logRecord) IN
    IF ~t.err.isNil
    THEN [v |-> [v EXCEPT !.err = Permanent(t.err)], ok |-> FALSE, send |-> <<>>]
    ELSE [v |-> [v EXCEPT !.processed = @ + 1], ok |-> TRUE,
          send |-> <<[t.envelope EXCEPT !.IKey = cfg.InstrumentationKey]>>]

metricVisitorVisit(v, cfg, metric) ==
    LET t == metricToEnvelope(metric) IN
    IF ~t.err.isNil
    THEN [v |-> [v EXCEPT !.err = Permanent(t.err)], ok |-> FALSE, send |-> <<>>]
    ELSE [v |-> [v EXCEPT !.processed = @ + 1], ok |-> TRUE,
          send |-> <<[t.envelope EXCEPT !.IKey = cfg.InstrumentationKey]>>]

\* the mock visitor of the iteration tests, answering false on call failAt
\* (0: it answers true on every call); n is the number of this call
mockVisitorVisit(n, failAt) == ~(failAt # 0 /\ n = failAt)

(***************************************************************************)
(* The facades: the entry decides on the record count, the return computes *)
(* the pair (dropped, err).  The context is a parameter neither reads.     *)
(***************************************************************************)
NoResult == [returned |-> FALSE, dropped |-> 0, err |-> NoError]

\* mutant: a cancelled context ends the call at its entry
onLogDataEntry_ContextChecked(ctxCancelled, logCount) ==
    IF ctxCancelled \/ logCount = 0 THEN "return" ELSE "accept"

onLogDataEntry(ctxCancelled, logCount) == IF logCount = 0 THEN "return" ELSE "accept"

\* mutant: dropped records are reported as an error
onLogDataResult_ErrorOnDropped(logCount, visitor) ==
    [returned |-> TRUE, dropped |-> logCount - visitor.processed,
     err |-> IF logCount - visitor.processed > 0 /\ visitor.err.isNil
             THEN [isNil |-> FALSE, permanent |-> FALSE, msg |-> "dropped"]
             ELSE visitor.err]

onLogDataResult(logCount, visitor) ==
    [returned |-> TRUE, dropped |-> logCount - visitor.processed, err |-> visitor.err]

onMetricDataEntry(ctxCancelled, metricCount) == IF metricCount = 0 THEN "return" ELSE "accept"

onMetricDataResult(metricCount, visitor) ==
    [returned |-> TRUE, dropped |-> metricCount - visitor.processed, err |-> visitor.err]

(***************************************************************************)
(* State.  calls[c] is the frame of call c (exporter is the receiver of    *)
(* the facade), sent the sequence of envelopes the transport channel has   *)
(* been handed.  translation is the frame of a direct call of a translator *)
(* (logRecordToEnvelope, metricToEnvelopes) or of getSeverityLevel: the     *)
(* function called, its arguments and, once it has returned, its result.   *)
(***************************************************************************)
InstrumentationKeys == {"ikey-a", "ikey-b"}

\* the exporters a facade may be called on; a test of the driver has none
NoExporter == [config |-> [InstrumentationKey |-> ""]]

Exporters == {[config |-> [InstrumentationKey |-> key]] : key \in InstrumentationKeys}

IdleCall ==
    [pc |-> "idle", facade |-> "none", driver |-> "none", exporter |-> NoExporter,
     batch |-> <<>>,
     cancelled |-> FALSE, failAt |-> 0, count |-> 0,
     i |-> 0, j |-> 0, k |-> 0,
     visited |-> <<>>, visitor |-> NewVisitor, result |-> NoResult]

IdleTranslation == [fn |-> "none", pc |-> "idle", in |-> <<>>, out |-> <<>>]

Init ==
    /\ calls = [c \in Calls |-> IdleCall]
    /\ sent = <<>>
    /\ translation = IdleTranslation

\* The driver from a loop head on, up to its next call of visit or to its
\* return: the loop heads in between only advance the indices.
RECURSIVE Seek(_, _, _, _, _, _)
Seek(drv, b, level, i, j, k) ==
    IF level = "resources"
    THEN LET h == ResourceHead(drv, b, i) IN
         IF h = "exit" THEN [pc |-> "returned", i |-> i, j |-> j, k |-> k]
         ELSE IF h = "skip" THEN Seek(drv, b, "resources", i + 1, j, k)
         ELSE Seek(drv, b, "libraries", i, 1, k)
    ELSE IF level = "libraries"
    THEN LET h == LibraryHead(drv, b, i, j) IN
         IF h = "exit" THEN Seek(drv, b, "resources", i + 1, j, k)
         ELSE IF h = "skip" THEN Seek(drv, b, "libraries", i, j + 1, k)
         ELSE Seek(drv, b, "records", i, j, 1)
    ELSE LET h == RecordHead(drv, b, i, j, k) IN
         IF h = "exit" THEN Seek(drv, b, "libraries", i, j + 1, k)
         ELSE IF h = "skip" THEN Seek(drv, b, "records", i, j, k + 1)
         ELSE [pc |-> "visit", i |-> i, j |-> j, k |-> k]

\* the frame of a call when its driver has returned: the facade returns
Returned(f) ==
    [f EXCEPT !.pc = "done",
              !.result = IF f.facade = "log" THEN onLogDataResult(f.count, f.visitor)
                         ELSE IF f.facade = "metric"
                         THEN onMetricDataResult(f.count, f.visitor)
                         ELSE [NoResult EXCEPT !.returned = TRUE]]

\* the frame of a call whose driver goes on from a loop head
Continue(f, level, i, j, k) ==
    LET s == Seek(f.driver, f.batch, level, i, j, k) IN
    IF s.pc = "returned" THEN Returned(f)
    ELSE [f EXCEPT !.pc = "visit", !.i = s.i, !.j = s.j, !.k = s.k]

\* the frame of a call that enters its driver
Started(facade, drv, exporter, b, cancelled, failAt, count) ==
    Continue([IdleCall EXCEPT !.facade = facade, !.driver = drv, !.exporter = exporter,
                              !.batch = b,
                              !.cancelled = cancelled, !.failAt = failAt, !.count = count],
             "resources", 1, 0, 0)

(***************************************************************************)
(* The caller of call c builds its batch, in input order: it appends a     *)
(* resource element, an instrumentation-library element to the last        *)
(* resource element, or a leaf record to the last library element.         *)
(***************************************************************************)
AppendResourceElement(c) ==
    LET f == calls[c] IN
    /\ f.pc = "idle"
    /\ Nodes(f.batch) < MaxNodes
    /\ \E e \in {NilResourceElement, EmptyResourceElement(TRUE), EmptyResourceElement(FALSE)} :
          calls' = [calls EXCEPT ![c].batch = Append(@, e)]
    /\ UNCHANGED <<sent, translation>>

AppendLibraryElement(c) ==
    LET f == calls[c]
        i == Len(f.batch) IN
    /\ f.pc = "idle"
    /\ Nodes(f.batch) < MaxNodes
    /\ i > 0
    /\ ~f.batch[i].isNil
    /\ \E e \in {NilLibrary, EmptyLibrary} :
          calls' = [calls EXCEPT ![c].batch[i].ils = Append(@, e)]
    /\ UNCHANGED <<sent, translation>>

AppendRecord(c) ==
    LET f == calls[c]
        i == Len(f.batch)
        j == IF i > 0 THEN Len(f.batch[i].ils) ELSE 0 IN
    /\ f.pc = "idle"
    /\ Nodes(f.batch) < MaxNodes
    /\ j > 0
    /\ ~f.batch[i].ils[j].isNil
    /\ \E r \in Records :
          calls' = [calls EXCEPT ![c].batch[i].ils[j].recs = Append(@, r)]
    /\ UNCHANGED <<sent, translation>>

\* the batches of the iteration tests: the mock visitor reads no record
IsTestBatch(b) ==
    \A i \in 1..Len(b) : \A j \in 1..Len(b[i].ils) : \A k \in 1..Len(b[i].ils[j].recs) :
        b[i].ils[j].recs[k].kind # "faas"

\* a test calls AcceptLogs or AcceptMetrics with a mock visitor
AcceptMock(c) ==
    LET b == calls[c].batch IN
    /\ calls[c].pc = "idle"
    /\ IsTestBatch(b)
    /\ \E drv \in {"logs", "metrics"}, failAt \in 0..MaxFailAt :
          calls' = [calls EXCEPT ![c] = Started("mock", drv, NoExporter, b, FALSE, failAt, 0)]
    /\ UNCHANGED <<sent, translation>>

onLogData(c) ==
    LET b == calls[c].batch IN
    /\ calls[c].pc = "idle"
    /\ \E exporter \in Exporters, cancelled \in BOOLEAN :
          LET logCount == LogRecordCount(b) IN
          calls' = [calls EXCEPT ![c] =
                      IF onLogDataEntry(cancelled, logCount) = "return"
                      THEN [IdleCall EXCEPT !.pc = "done", !.facade = "log", !.driver = "logs",
                                            !.exporter = exporter, !.batch = b,
                                            !.cancelled = cancelled,
                                            !.result = [NoResult EXCEPT !.returned = TRUE]]
                      ELSE Started("log", "logs", exporter, b, cancelled, 0, logCount)]
    /\ UNCHANGED <<sent, translation>>

onMetricData(c) ==
    LET b == calls[c].batch IN
    /\ calls[c].pc = "idle"
    /\ \E exporter \in Exporters, cancelled \in BOOLEAN :
          LET metricCount == MetricCount(b) IN
          calls' = [calls EXCEPT ![c] =
                      IF onMetricDataEntry(cancelled, metricCount) = "return"
                      THEN [IdleCall EXCEPT !.pc = "done", !.facade = "metric",
                                            !.driver = "metrics",
                                            !.exporter = exporter, !.batch = b,
                                            !.cancelled = cancelled,
                                            !.result = [NoResult EXCEPT !.returned = TRUE]]
                      ELSE Started("metric", "metrics", exporter, b, cancelled, 0, metricCount)]
    /\ UNCHANGED <<sent, translation>>

\* the frame after a visit of the record at (i, j, k) that answered ok
Visited(f, ok) ==
    LET g == [f EXCEPT !.visited = Append(@, <<f.i, f.j, f.k>>)] IN
    IF AfterVisit(f.driver, ok) = "return" THEN Returned(g)
    ELSE Continue(g, "records", f.i, f.j, f.k + 1)

\* the envelopes of a visit as the transport channel records them
Sends(c, f, es) ==
    [n \in 1..Len(es) |-> [call |-> c, pos |-> <<f.i, f.j, f.k>>, envelope |-> es[n]]]

\* the driver calls the mock visitor, and goes on or returns
VisitMock(c) ==
    LET f == calls[c] IN
    /\ f.pc = "visit"
    /\ f.facade = "mock"
    /\ calls' = [calls EXCEPT ![c] =
                   Visited(f, mockVisitorVisit(Len(f.visited) + 1, f.failAt))]
    /\ UNCHANGED <<sent, translation>>

\* mutant: the visitor belongs to the exporter, not to the call: every
\* call counts in, and returns from, the same processed and err
VisitLog_SharedVisitor(c) ==
    LET f == calls[c] IN
    /\ f.pc = "visit"
    /\ f.facade = "log"
    /\ LET r == logVisitorVisit(calls[1].visitor, f.exporter.config,
                                f.batch[f.i].ils[f.j].recs[f.k]) IN
          /\ calls' = [d \in Calls |->
                          IF d = c THEN Visited([f EXCEPT !.visitor = r.v], r.ok)
                          ELSE [calls[d] EXCEPT !.visitor = r.v]]
          /\ sent' = sent \o Sends(c, f, r.send)
          /\ UNCHANGED translation

\* the driver calls logVisitor.visit, and goes on or returns to onLogData
VisitLog(c) ==
    LET f == calls[c] IN
    /\ f.pc = "visit"
    /\ f.facade = "log"
    /\ LET r == logVisitorVisit(f.visitor, f.exporter.config, f.batch[f.i].ils[f.j].recs[f.k]) IN
          /\ calls' = [calls EXCEPT ![c] = Visited([f EXCEPT !.visitor = r.v], r.ok)]
          /\ sent' = sent \o Sends(c, f, r.send)
          /\ UNCHANGED translation

\* the driver calls metricVisitor.visit, and goes on or returns to onMetricData
VisitMetric(c) ==
    LET f == calls[c] IN
    /\ f.pc = "visit"
    /\ f.facade = "metric"
    /\ LET r == metricVisitorVisit(f.visitor, f.exporter.config, f.batch[f.i].ils[f.j].recs[f.k]) IN
          /\ calls' = [calls EXCEPT ![c] = Visited([f EXCEPT !.visitor = r.v], r.ok)]
          /\ sent' = sent \o Sends(c, f, r.send)
          /\ UNCHANGED translation

Next ==
    \/ AppendResourceElement(1)
    \/ AppendLibraryElement(1)
    \/ AppendRecord(1)
    \/ AcceptMock(1)
    \/ onLogData(1)
    \/ onMetricData(1)
    \/ VisitMock(1)
    \/ VisitLog(1)
    \/ VisitMetric(1)

Spec == Init /\ [][Next]_vars

(***************************************************************************)
(* Vocabulary of the properties.                                           *)
(***************************************************************************)
Range(s) == {s[n] : n \in 1..Len(s)}

\* p comes before q in the depth-first input order
Before(p, q) ==
    \/ p[1] < q[1]
    \/ p[1] = q[1] /\ p[2] < q[2]
    \/ p[1] = q[1] /\ p[2] = q[2] /\ p[3] < q[3]

Increasing(s) == \A m, n \in 1..Len(s) : m < n => Before(s[m], s[n])

\* the positions of the leaf slots of a batch, absent records included
LeafSlots(b) ==
    UNION {UNION {{<<i, j, k>> : k \in 1..Len(b[i].ils[j].recs)} :
                     j \in 1..Len(b[i].ils)} : i \in 1..Len(b)}

RecordAt(b, p) == b[p[1]].ils[p[2]].recs[p[3]]

\* the present records under a present resource element with a present
\* Resource and a present instrumentation-library element
Eligible(b) ==
    {p \in LeafSlots(b) :
        /\ ~b[p[1]].isNil
        /\ ~b[p[1]].resourceNil
        /\ ~b[p[1]].ils[p[2]].isNil
        /\ ~RecordAt(b, p).isNil}

SentBy(c) == SelectSeq(sent, LAMBDA e : e.call = c)

SentPositions(c) == [n \in 1..Len(SentBy(c)) |-> SentBy(c)[n].pos]

IsFacade(f) == f.facade \in {"log", "metric"}

\* the translation of the record at p of the batch of frame f fails
TranslationFails(f, p) ==
    LET rec == RecordAt(f.batch, p) IN
    ~(IF f.facade = "log" THEN logRecordToEnvelope(rec) ELSE metricToEnvelope(rec)).err.isNil

(***************************************************************************)
(* C1.  With a visitor that answers true on every call, AcceptLogs and     *)
(* AcceptMetrics call visit exactly once for every present record under a  *)
(* present resource element with a present Resource and a present          *)
(* instrumentation-library element, in input order: N such records, N      *)
(* calls.                                                                  *)
(***************************************************************************)
C1_VisitOncePerRecordInOrder ==
    \A c \in Calls :
        LET f == calls[c] IN
        (f.facade = "mock" /\ f.failAt = 0) =>
            /\ Increasing(f.visited)
            /\ f.pc = "done" =>
                  /\ Len(f.visited) = Cardinality(Eligible(f.batch))
                  /\ Range(f.visited) = Eligible(f.batch)

\* three records in two instrumentation-library elements have been visited
C1_Witness ==
    \E c \in Calls :
        LET f == calls[c] IN
        /\ f.facade = "mock" /\ f.failAt = 0 /\ f.pc = "done"
        /\ Len(f.visited) = 3
        /\ f.visited[1][2] # f.visited[3][2]

(***************************************************************************)
(* C2.  Short-circuit: when the visitor answers false on its k-th call the *)
(* driver returns at once; visit has been called exactly k times, for the  *)
(* first k eligible records, and no record of a later instrumentation-     *)
(* library or resource element is visited.                                 *)
(***************************************************************************)
C2_ShortCircuit ==
    \A c \in Calls :
        LET f == calls[c]
            E == Eligible(f.batch)
            firstK == {p \in E : Cardinality({q \in E : Before(q, p)}) < f.failAt} IN
        (f.facade = "mock" /\ f.failAt > 0) =>
            /\ Len(f.visited) <= f.failAt
            /\ Len(f.visited) = f.failAt => f.pc = "done"
            /\ f.pc = "done" =>
                  /\ Range(f.visited) = firstK
                  /\ Len(f.visited) = Cardinality(firstK)

\* the visitor answered false while a later resource element held a record
C2_Witness ==
    \E c \in Calls :
        LET f == calls[c] IN
        /\ f.facade = "mock" /\ f.failAt > 0 /\ f.pc = "done"
        /\ Len(f.visited) = f.failAt
        /\ \E p \in Eligible(f.batch) : p[1] > f.visited[Len(f.visited)][1]

(***************************************************************************)
(* C3.  Skip rules: visit is never called for an absent resource element,  *)
(* an element without Resource, an absent instrumentation-library element  *)
(* or an absent record; without resource elements it is never called; and  *)
(* a skip does not end the traversal: unless the visitor answered false,   *)
(* every present record under later siblings is visited.                   *)
(***************************************************************************)
C3_SkipRules ==
    \A c \in Calls :
        LET f == calls[c] IN
        /\ Range(f.visited) \subseteq Eligible(f.batch)
        /\ Len(f.batch) = 0 => f.visited = <<>>
        /\ (f.pc = "done" /\ f.facade = "mock" /\ f.failAt = 0) =>
              Eligible(f.batch) \subseteq Range(f.visited)

\* a record is visited after an absent resource element, an absent
\* instrumentation-library element and an absent record have been skipped
C3_Witness ==
    \E c \in Calls :
        LET f == calls[c] IN
        /\ f.facade = "mock" /\ f.failAt = 0 /\ f.pc = "done"
        /\ f.visited = <<(<<2, 2, 2>>)>>
        /\ f.batch[1].isNil
        /\ f.batch[2].ils[1].isNil
        /\ f.batch[2].ils[2].recs[1].isNil

(***************************************************************************)
(* C4.  The dropped count a facade returns is the number of records of the *)
(* batch minus the number of records handed to Send (visitor.processed,    *)
(* the number of Send calls of the call); an empty batch returns (0, nil)  *)
(* without a Send.                                                         *)
(***************************************************************************)
C4_DroppedCount ==
    \A c \in Calls :
        LET f == calls[c] IN
        IsFacade(f) =>
            /\ f.visitor.processed = Len(SentBy(c))
            /\ f.pc = "done" =>
                  /\ f.result.dropped = Cardinality(LeafSlots(f.batch)) - Len(SentBy(c))
                  /\ Len(f.batch) = 0 =>
                        f.result.dropped = 0 /\ f.result.err.isNil /\ Len(SentBy(c)) = 0

\* a call returned after one record was sent and another one dropped
C4_Witness ==
    \E c \in Calls :
        LET f == calls[c] IN
        /\ IsFacade(f) /\ f.pc = "done"
        /\ f.result.dropped = 1
        /\ Len(SentBy(c)) = 1

SingleRecordBatch(kd) ==
    <<[isNil |-> FALSE, resourceNil |-> FALSE,
       ils |-> <<[isNil |-> FALSE, recs |-> <<[isNil |-> FALSE, kind |-> kd]>>]>>]>>

C6_FaasLogFails ==
    \A c \in Calls :
        LET f == calls[c] IN
        (f.facade = "log" /\ f.pc = "done" /\ f.batch = SingleRecordBatch("faas")) =>
            /\ ~f.result.err.isNil
            /\ f.result.err.permanent
            /\ f.result.dropped = 1
            /\ Len(SentBy(c)) = 0

(***************************************************************************)
(* C7.  When the translation of the k-th visited record of a batch of N    *)
(* records fails (a record that carries faas.trigger), Send has been       *)
(* called for the k-1 records before it and for none after it, and the     *)
(* facade returns dropped = N - (k-1) with the permanent error; a failing  *)
(* first record followed by a well-formed one gives no Send and dropped 2. *)
(***************************************************************************)
FaasPositions(b) == {p \in Eligible(b) : RecordAt(b, p).kind = "faas"}

C7_SendsBeforeFailure ==
    \A c \in Calls :
        LET f == calls[c]
            E == Eligible(f.batch)
            F == FaasPositions(f.batch) IN
        (IsFacade(f) /\ f.pc = "done" /\ F # {}) =>
            LET first == CHOOSE p \in F : \A q \in F : q = p \/ Before(p, q)
                k == Cardinality({q \in E : Before(q, first)}) + 1 IN
            /\ Len(SentBy(c)) = k - 1
            /\ Range(SentPositions(c)) = {q \in E : Before(q, first)}
            /\ f.result.dropped = Cardinality(LeafSlots(f.batch)) - (k - 1)
            /\ ~f.result.err.isNil /\ f.result.err.permanent

(***************************************************************************)
(* C8.  Within one facade call the envelopes are handed to Send in         *)
(* traversal order, and every record whose translation succeeded causes    *)
(* exactly one Send.                                                       *)
(***************************************************************************)
C8_SendInTraversalOrder ==
    \A c \in Calls :
        LET f == calls[c] IN
        IsFacade(f) =>
            /\ Increasing(SentPositions(c))
            /\ \A p \in Range(f.visited) :
                  Cardinality({n \in 1..Len(SentBy(c)) : SentBy(c)[n].pos = p})
                     = IF TranslationFails(f, p) THEN 0 ELSE 1
            /\ Range(SentPositions(c)) \subseteq Range(f.visited)
            /\ \A n \in 1..Len(SentBy(c)) :
                  SentBy(c)[n].envelope.record = RecordAt(f.batch, SentBy(c)[n].pos)

\* two records of different instrumentation-library elements have been sent
C8_Witness ==
    \E c \in Calls :
        /\ IsFacade(calls[c])
        /\ Len(SentBy(c)) >= 2
        /\ SentBy(c)[1].pos[2] # SentBy(c)[2].pos[2]

(***************************************************************************)
(* C9 as stated.  A facade called with an already-cancelled context and a  *)
(* non-empty batch returns at once: Send is not called.                    *)
(***************************************************************************)
C9_CancelledSendsNothing ==
    \A c \in Calls :
        LET f == calls[c] IN
        (IsFacade(f) /\ f.cancelled /\ Len(f.batch) > 0) => Len(SentBy(c)) = 0

(***************************************************************************)
(* C9 as amended.  The facades do not consult the context: a call with an  *)
(* already-cancelled context traverses the batch like any other call and   *)
(* has called Send once for every record its driver visits when it         *)
(* returns.                                                                *)
(***************************************************************************)
C9_CancelledContextIgnored ==
    \A c \in Calls :
        LET f == calls[c] IN
        (IsFacade(f) /\ f.cancelled /\ f.pc = "done") =>
            /\ Range(SentPositions(c)) = Eligible(f.batch)
            /\ f.result.dropped = Cardinality(LeafSlots(f.batch) \ Eligible(f.batch))

\* a call with a cancelled context returned after it sent two envelopes
C9_Witness ==
    \E c \in Calls :
        LET f == calls[c] IN
        /\ IsFacade(f) /\ f.cancelled /\ f.pc = "done"
        /\ Len(SentBy(c)) = 2

(***************************************************************************)
(* C10.  Every envelope handed to Send carries the configured              *)
(* InstrumentationKey as its IKey, so all envelopes of a batch carry the   *)
(* same IKey.                                                              *)
(***************************************************************************)
C10_IKeyFromConfig ==
    /\ \A n \in 1..Len(sent) :
          sent[n].envelope.IKey = calls[sent[n].call].exporter.config.InstrumentationKey
    /\ \A m, n \in 1..Len(sent) :
          sent[m].call = sent[n].call => sent[m].envelope.IKey = sent[n].envelope.IKey

\* two envelopes of a batch have been handed to Send
C10_Witness ==
    /\ Len(sent) >= 2
    /\ sent[1].call = sent[2].call
    /\ sent[1].envelope.IKey \in InstrumentationKeys

(***************************************************************************)
(* getSeverityLevel.  A severity text is written as a word followed by a   *)
(* run of digits; SeverityWords holds every name of the pattern table in   *)
(* the spelling of the table, in lower case and in upper case, and words   *)
(* no pattern names.                                                       *)
(***************************************************************************)
MaxSeverityNumber == 25
MaxSuffix == 2

SeverityNumberUNDEFINED == 0
SeverityNumberDEBUG4 == 8
SeverityNumberINFO4 == 12
SeverityNumberWARN4 == 16
SeverityNumberERROR4 == 20

SeverityNumbers == -1..MaxSeverityNumber

SeverityLevels == {"Verbose", "Information", "Warning", "Error", "Critical"}

\* (?i): the upper-case form of a word
FoldCase ==
    "TRACE" :> "TRACE" @@
    "trace" :> "TRACE" @@
    "FINEST" :> "FINEST" @@
    "finest" :> "FINEST" @@
    "DEBUG" :> "DEBUG" @@
    "debug" :> "DEBUG" @@
    "Verbose" :> "VERBOSE" @@
    "verbose" :> "VERBOSE" @@
    "VERBOSE" :> "VERBOSE" @@
    "FINER" :> "FINER" @@
    "finer" :> "FINER" @@
    "FINE" :> "FINE" @@
    "fine" :> "FINE" @@
    "CONFIG" :> "CONFIG" @@
    "config" :> "CONFIG" @@
    "INFO" :> "INFO" @@
    "info" :> "INFO" @@
    "Informational" :> "INFORMATIONAL" @@
    "informational" :> "INFORMATIONAL" @@
    "INFORMATIONAL" :> "INFORMATIONAL" @@
    "Information" :> "INFORMATION" @@
    "information" :> "INFORMATION" @@
    "INFORMATION" :> "INFORMATION" @@
    "Notice" :> "NOTICE" @@
    "notice" :> "NOTICE" @@
    "NOTICE" :> "NOTICE" @@
    "WARN" :> "WARN" @@
    "warn" :> "WARN" @@
    "Warning" :> "WARNING" @@
    "warning" :> "WARNING" @@
    "WARNING" :> "WARNING" @@
    "ERROR" :> "ERROR" @@
    "error" :> "ERROR" @@
    "SEVERE" :> "SEVERE" @@
    "severe" :> "SEVERE" @@
    "Critical" :> "CRITICAL" @@
    "critical" :> "CRITICAL" @@
    "CRITICAL" :> "CRITICAL" @@
    "Dpanic" :> "DPANIC" @@
    "dpanic" :> "DPANIC" @@
    "DPANIC" :> "DPANIC" @@
    "Emergency" :> "EMERGENCY" @@
    "emergency" :> "EMERGENCY" @@
    "EMERGENCY" :> "EMERGENCY" @@
    "Panic" :> "PANIC" @@
    "panic" :> "PANIC" @@
    "PANIC" :> "PANIC" @@
    "FATAL" :> "FATAL" @@
    "fatal" :> "FATAL" @@
    "Alert" :> "ALERT" @@
    "alert" :> "ALERT" @@
    "ALERT" :> "ALERT" @@
    "" :> "" @@
    "OFF" :> "OFF" @@
    "INF" :> "INF" @@
    "INFOS" :> "INFOS" @@
    "XWARN" :> "XWARN" @@
    "ERR" :> "ERR"

SeverityWords == DOMAIN FoldCase

SuffixDigits == {"1", "2", "3", "4", "5"}

\* mutant: the name WARNING is also listed for Error
mapStringToAppInsightsSeverity_Overlapping ==
    [Verbose |-> {"TRACE", "FINEST", "DEBUG", "VERBOSE", "FINER", "FINE", "CONFIG"},
     Information |-> {"INFO", "INFORMATIONAL", "INFORMATION", "NOTICE"},
     Warning |-> {"WARN", "WARNING"},
     Error |-> {"ERROR", "SEVERE", "WARNING"},
     Critical |-> {"CRITICAL", "DPANIC", "EMERGENCY", "PANIC", "FATAL", "ALERT"}]

\* the alternatives of each pattern, folded
mapStringToAppInsightsSeverity ==
    [Verbose |-> {"TRACE", "FINEST", "DEBUG", "VERBOSE", "FINER", "FINE", "CONFIG"},
     Information |-> {"INFO", "INFORMATIONAL", "INFORMATION", "NOTICE"},
     Warning |-> {"WARN", "WARNING"},
     Error |-> {"ERROR", "SEVERE"},
     Critical |-> {"CRITICAL", "DPANIC", "EMERGENCY", "PANIC", "FATAL", "ALERT"}]

\* mutant: the pattern is matched case-sensitively, in upper case
MatchString_CaseSensitive(level, text) ==
    /\ text.word \in mapStringToAppInsightsSeverity[level]
    /\ \A n \in 1..Len(text.suffix) : text.suffix[n] \in {"2", "3", "4"}

\* r.MatchString(SeverityText) for the pattern r of level:
\* (?i)^(?:alternatives)[2-4]*$
MatchString(level, text) ==
    /\ FoldCase[text.word] \in mapStringToAppInsightsSeverity[level]
    /\ \A n \in 1..Len(text.suffix) : text.suffix[n] \in {"2", "3", "4"}

\* mutant: the upper limit of each range belongs to the next level
getSeverityLevel_RangesExclusive(SeverityNumber, SeverityText) ==
    IF SeverityNumber # SeverityNumberUNDEFINED
    THEN {[found |-> TRUE,
           level |-> IF SeverityNumber < SeverityNumberDEBUG4 THEN "Verbose"
                     ELSE IF SeverityNumber < SeverityNumberINFO4 THEN "Information"
                     ELSE IF SeverityNumber < SeverityNumberWARN4 THEN "Warning"
                     ELSE IF SeverityNumber < SeverityNumberERROR4 THEN "Error"
                     ELSE "Critical"]}
    ELSE LET matching == {level \in SeverityLevels : MatchString(level, SeverityText)} IN
         IF matching = {} THEN {[found |-> FALSE, level |-> "Information"]}
         ELSE {[found |-> TRUE, level |-> level] : level \in matching}

\* The results getSeverityLevel may return: the range over the pattern
\* table runs in an unspecified order and returns the first level matched.
getSeverityLevel(SeverityNumber, SeverityText) ==
    IF SeverityNumber # SeverityNumberUNDEFINED
    THEN {[found |-> TRUE,
           level |-> IF SeverityNumber <= SeverityNumberDEBUG4 THEN "Verbose"
                     ELSE IF SeverityNumber <= SeverityNumberINFO4 THEN "Information"
                     ELSE IF SeverityNumber <= SeverityNumberWARN4 THEN "Warning"
                     ELSE IF SeverityNumber <= SeverityNumberERROR4 THEN "Error"
                     ELSE "Critical"]}
    ELSE LET matching == {level \in SeverityLevels : MatchString(level, SeverityText)} IN
         IF matching = {} THEN {[found |-> FALSE, level |-> "Information"]}
         ELSE {[found |-> TRUE, level |-> level] : level \in matching}

\* a caller chooses the severity number and the word of the severity text
SeverityInput ==
    /\ translation.pc = "idle"
    /\ \E number \in SeverityNumbers, word \in SeverityWords :
          translation' = [fn |-> "getSeverityLevel", pc |-> "input",
                          in |-> [SeverityNumber |-> number,
                                  SeverityText |-> [word |-> word, suffix |-> <<>>]],
                          out |-> <<>>]
    /\ UNCHANGED <<calls, sent>>

\* ... and the digits that follow the word
SeveritySuffix ==
    /\ translation.fn = "getSeverityLevel"
    /\ translation.pc = "input"
    /\ Len(translation.in.SeverityText.suffix) < MaxSuffix
    /\ \E d \in SuffixDigits :
          translation' = [translation EXCEPT !.in.SeverityText.suffix = Append(@, d)]
    /\ UNCHANGED <<calls, sent>>

\* the call of getSeverityLevel
SeverityCall ==
    /\ translation.fn = "getSeverityLevel"
    /\ translation.pc = "input"
    /\ \E r \in getSeverityLevel(translation.in.SeverityNumber, translation.in.SeverityText) :
          translation' = [translation EXCEPT !.pc = "done", !.out = r]
    /\ UNCHANGED <<calls, sent>>

NextSeverity ==
    \/ SeverityInput
    \/ SeveritySuffix
    \/ SeverityCall

SpecSeverity == Init /\ [][NextSeverity]_vars

\* the severity call has returned
SeverityDone == translation.fn = "getSeverityLevel" /\ translation.pc = "done"

(***************************************************************************)
(* C14.  For every SeverityNumber other than UNDEFINED getSeverityLevel     *)
(* reports the severity as known, with level Verbose for numbers up to     *)
(* DEBUG4, Information up to INFO4, Warning up to WARN4, Error up to       *)
(* ERROR4 and Critical above; the result is the same whatever the          *)
(* SeverityText is.                                                        *)
(***************************************************************************)
C14_SeverityByNumber ==
    (SeverityDone /\ translation.in.SeverityNumber # SeverityNumberUNDEFINED) =>
        LET n == translation.in.SeverityNumber IN
        /\ translation.out.found
        /\ n <= SeverityNumberDEBUG4 => translation.out.level = "Verbose"
        /\ (SeverityNumberDEBUG4 < n /\ n <= SeverityNumberINFO4) =>
               translation.out.level = "Information"
        /\ (SeverityNumberINFO4 < n /\ n <= SeverityNumberWARN4) =>
               translation.out.level = "Warning"
        /\ (SeverityNumberWARN4 < n /\ n <= SeverityNumberERROR4) =>
               translation.out.level = "Error"
        /\ n > SeverityNumberERROR4 => translation.out.level = "Critical"

\* number DEBUG4 with the text "FATAL" has been classified Verbose
C14_Witness ==
    /\ SeverityDone
    /\ translation.in.SeverityNumber = SeverityNumberDEBUG4
    /\ translation.in.SeverityText = [word |-> "FATAL", suffix |-> <<>>]
    /\ translation.out = [found |-> TRUE, level |-> "Verbose"]

\* the names the claim lists for each level, in upper case
C15_Names ==
    [Verbose |-> {"TRACE", "FINEST", "DEBUG", "VERBOSE", "FINER", "FINE", "CONFIG"},
     Information |-> {"INFO", "INFORMATIONAL", "INFORMATION", "NOTICE"},
     Warning |-> {"WARN", "WARNING"},
     Error |-> {"ERROR", "SEVERE"},
     Critical |-> {"CRITICAL", "DPANIC", "EMERGENCY", "PANIC", "FATAL", "ALERT"}]

\* the level under which the claim lists the word of a text, if any
C15_LevelsOf(text) ==
    {level \in SeverityLevels : FoldCase[text.word] \in C15_Names[level]}

\* the result of a call on an undefined number is the one the name lists
\* give for the texts whose suffix satisfies okSuffix
C15_ByText(okSuffix(_)) ==
    (SeverityDone /\ translation.in.SeverityNumber = SeverityNumberUNDEFINED) =>
        LET text == translation.in.SeverityText
            names == C15_LevelsOf(text) IN
        IF names # {} /\ okSuffix(text.suffix)
        THEN translation.out.found /\ names = {translation.out.level}
        ELSE ~translation.out.found

(***************************************************************************)
(* C15 as stated.  When SeverityNumber is UNDEFINED the text is matched    *)
(* case-insensitively against the name lists, with an optional suffix 2,   *)
(* 3 or 4; any other text, the empty one included, gives severity unknown. *)
(***************************************************************************)
C15_OptionalSuffixDigit ==
    C15_ByText(LAMBDA suffix : suffix \in {<<>>, <<"2">>, <<"3">>, <<"4">>})

(***************************************************************************)
(* C15, amended.  When SeverityNumber is UNDEFINED the text is matched     *)
(* case-insensitively against the name lists, followed by any number       *)
(* (none included) of digits 2, 3 or 4; any other text, the empty one      *)
(* included, gives severity unknown.                                       *)
(***************************************************************************)
C15_SeverityByText ==
    C15_ByText(LAMBDA suffix : \A n \in 1..Len(suffix) : suffix[n] \in {"2", "3", "4"})

\* the text "warn42" has been classified Warning
C15_Witness ==
    /\ SeverityDone
    /\ translation.in.SeverityNumber = SeverityNumberUNDEFINED
    /\ translation.in.SeverityText = [word |-> "warn", suffix |-> <<"4", "2">>]
    /\ translation.out = [found |-> TRUE, level |-> "Warning"]

(***************************************************************************)
(* pdata attribute values and the conversions the translators apply to     *)
(* them.  A float64 is written as the number of halves it holds (1.5 is    *)
(* 3), so float64(n) of an integer n is 2 * n.  An AttributeMap, a label   *)
(* map, Properties, Measurements and Tags are functions from keys.         *)
(***************************************************************************)
NewAttributeValueNull == [type |-> "NULL", s |-> "", n |-> 0, b |-> FALSE, m |-> <<>>]

NewAttributeValueString(v) == [NewAttributeValueNull EXCEPT !.type = "STRING", !.s = v]

NewAttributeValueInt(v) == [NewAttributeValueNull EXCEPT !.type = "INT", !.n = v]

NewAttributeValueDouble(v) == [NewAttributeValueNull EXCEPT !.type = "DOUBLE", !.n = v]

NewAttributeValueBool(v) == [NewAttributeValueNull EXCEPT !.type = "BOOL", !.b = v]

NewAttributeValueMap(v) == [NewAttributeValueNull EXCEPT !.type = "MAP", !.m = v]

NewAttributeValueArray == [NewAttributeValueNull EXCEPT !.type = "ARRAY"]

\* AttributeValue.StringVal(): the empty string unless the value is a string
StringVal(v) == IF v.type = "STRING" THEN v.s ELSE ""

float64(n) == 2 * n

FormatInt(n) == ToString(n)

FormatBool(b) == IF b THEN "true" ELSE "false"

\* strconv.FormatFloat(v, 'f', -1, 64) of a float64 of whole halves
FormatFloat(v) ==
    LET whole == IF v >= 0 THEN v \div 2 ELSE (0 - v) \div 2
        sign == IF v < 0 THEN "-" ELSE "" IN
    sign \o ToString(whole) \o (IF v % 2 = 1 THEN ".5" ELSE "")

\* tracetranslator.AttributeValueToString(v, false); a map or an array is
\* rendered as JSON text
AttributeValueToString(v) ==
    CASE v.type = "STRING" -> v.s
      [] v.type = "BOOL" -> FormatBool(v.b)
      [] v.type = "DOUBLE" -> FormatFloat(v.n)
      [] v.type = "INT" -> FormatInt(v.n)
      [] v.type = "MAP" -> "{json}"
      [] v.type = "ARRAY" -> "[json]"
      [] OTHER -> ""

\* toTime(t).Format(time.RFC3339Nano) of a timestamp of less than 10 ns
FormatTime(t) ==
    IF t = 0 THEN "1970-01-01T00:00:00Z"
    ELSE "1970-01-01T00:00:00.00000000" \o ToString(t) \o "Z"

EmptyMap == <<>>

\* m[k] = v on a Go map
Put(m, k, v) == (k :> v) @@ m

\* m.Get(k): the value and whether the key exists
Exists(m, k) == k \in DOMAIN m

OperationId == "ai.operation.id"

OperationParentId == "ai.operation.parentId"

CloudRole == "ai.cloud.role"

CloudRoleInstance == "ai.cloud.roleInstance"

AttributeServiceName == "service.name"

AttributeServiceNamespace == "service.namespace"

AttributeServiceInstance == "service.instance.id"

instrumentationLibraryName == "instrumentationlibrary.name"

instrumentationLibraryVersion == "instrumentationlibrary.version"

\* mutant: every attribute value becomes a string property
setAttributeValueAsPropertyOrMeasurement_AllProperties(key, attributeValue, data) ==
    [data EXCEPT !.Properties = Put(@, key, AttributeValueToString(attributeValue))]

\* data holds the maps Properties and Measurements
setAttributeValueAsPropertyOrMeasurement(key, attributeValue, data) ==
    CASE attributeValue.type = "BOOL" ->
             [data EXCEPT !.Properties = Put(@, key, FormatBool(attributeValue.b))]
      [] attributeValue.type = "STRING" ->
             [data EXCEPT !.Properties = Put(@, key, StringVal(attributeValue))]
      [] attributeValue.type = "INT" ->
             [data EXCEPT !.Measurements = Put(@, key, float64(attributeValue.n))]
      [] attributeValue.type = "DOUBLE" ->
             [data EXCEPT !.Measurements = Put(@, key, attributeValue.n)]
      [] OTHER -> data

\* attributeMap.ForEach over the keys not yet visited
RECURSIVE copyAndMapAttributes(_, _, _)
copyAndMapAttributes(attributeMap, keys, data) ==
    IF keys = {} THEN data
    ELSE LET k == CHOOSE key \in keys : TRUE IN
         copyAndMapAttributes(attributeMap, keys \ {k},
             setAttributeValueAsPropertyOrMeasurement(k, attributeMap[k], data))

copyAttributesWithoutMapping(attributeMap, data) ==
    copyAndMapAttributes(attributeMap, DOMAIN attributeMap, data)

\* ForEach(func(k, v) { data.Properties[k] = AttributeValueToString(v, false) })
RECURSIVE copyAttributesAsStrings(_, _, _)
copyAttributesAsStrings(attributeMap, keys, data) ==
    IF keys = {} THEN data
    ELSE LET k == CHOOSE key \in keys : TRUE IN
         copyAttributesAsStrings(attributeMap, keys \ {k},
             [data EXCEPT !.Properties = Put(@, k, AttributeValueToString(attributeMap[k]))])

\* "Copy the instrumentation properties"
copyInstrumentationProperties(instrumentationLibrary, data) ==
    IF instrumentationLibrary.isNil THEN data
    ELSE LET named == IF instrumentationLibrary.Name # ""
                      THEN [data EXCEPT !.Properties =
                               Put(@, instrumentationLibraryName, instrumentationLibrary.Name)]
                      ELSE data IN
         IF instrumentationLibrary.Version # ""
         THEN [named EXCEPT !.Properties =
                  Put(@, instrumentationLibraryVersion, instrumentationLibrary.Version)]
         ELSE named

\* mutant: the namespace alone makes a cloud role
cloudRoleTags_NamespaceAlone(resourceAttributes, tags) ==
    LET withRole ==
            IF Exists(resourceAttributes, AttributeServiceNamespace)
            THEN Put(tags, CloudRole,
                     StringVal(resourceAttributes[AttributeServiceNamespace]))
            ELSE tags IN
    IF Exists(resourceAttributes, AttributeServiceInstance)
    THEN Put(withRole, CloudRoleInstance,
             StringVal(resourceAttributes[AttributeServiceInstance]))
    ELSE withRole

\* the CloudRole and CloudRoleInstance tags from the service.* attributes
cloudRoleTags(resourceAttributes, tags) ==
    LET withRole ==
            IF Exists(resourceAttributes, AttributeServiceName)
            THEN LET serviceName == StringVal(resourceAttributes[AttributeServiceName])
                     cloudRole ==
                         IF Exists(resourceAttributes, AttributeServiceNamespace)
                         THEN StringVal(resourceAttributes[AttributeServiceNamespace])
                                 \o "." \o serviceName
                         ELSE serviceName IN
                 Put(tags, CloudRole, cloudRole)
            ELSE tags IN
    IF Exists(resourceAttributes, AttributeServiceInstance)
    THEN Put(withRole, CloudRoleInstance,
             StringVal(resourceAttributes[AttributeServiceInstance]))
    ELSE withRole

(***************************************************************************)
(* logRecordToEnvelope(resource, instrumentationLibrary, logRecord,        *)
(* logger).  The sanitizers truncate over-long strings in place and return *)
(* warnings, which sanitize hands to the logger; no string here is         *)
(* over-long, so they leave the envelope as it is.                         *)
(***************************************************************************)
\* SeverityText as the string it is: the word and the digits after it
RECURSIVE Digits(_)
Digits(suffix) == IF suffix = <<>> THEN "" ELSE Head(suffix) \o Digits(Tail(suffix))

SeverityTextString(text) == text.word \o Digits(text.suffix)

\* mutant: an absent id is left empty
logEnvelopeHead_NoPlaceholder(logRecord) ==
    [IKey |-> "", Name |-> "", Time |-> FormatTime(logRecord.Timestamp),
     Tags |-> Put(Put(EmptyMap, OperationId, logRecord.TraceID),
                  OperationParentId, "|" \o logRecord.TraceID \o "." \o logRecord.SpanID),
     Data |-> <<>>]

\* the envelope before the payload is chosen: Time and the operation tags
logEnvelopeHead(logRecord) ==
    LET traceIDHexString == IF Len(logRecord.TraceID) = 0
                            THEN "00000000000000000000000000000000"
                            ELSE logRecord.TraceID
        spanIDHexString == IF Len(logRecord.SpanID) = 0
                           THEN "0000000000000000"
                           ELSE logRecord.SpanID IN
    [IKey |-> "", Name |-> "", Time |-> FormatTime(logRecord.Timestamp),
     Tags |-> Put(Put(EmptyMap, OperationId, traceIDHexString),
                  OperationParentId, "|" \o traceIDHexString \o "." \o spanIDHexString),
     Data |-> <<>>]

\* the MessageData branch
logMessageData(resource, instrumentationLibrary, logRecord, sevLevel) ==
    LET data == [BaseType |-> "MessageData",
                 Message |-> StringVal(logRecord.Body),
                 SeverityLevel |-> sevLevel,
                 Properties |-> EmptyMap]
        attrs == copyAttributesAsStrings(logRecord.Attributes,
                                         DOMAIN logRecord.Attributes, data)
        res == copyAttributesAsStrings(resource.Attributes,
                                       DOMAIN resource.Attributes, attrs) IN
    copyInstrumentationProperties(instrumentationLibrary, res)

\* mutant: the severity properties are set only for a severity that is set
logEventData_SeverityWhenSet(resource, instrumentationLibrary, logRecord) ==
    LET data == [BaseType |-> "EventData", Name |-> "",
                 Properties |-> EmptyMap, Measurements |-> EmptyMap]
        attrs == copyAttributesWithoutMapping(logRecord.Attributes, data)
        named == [attrs EXCEPT !.Name = logRecord.Name]
        bodied == IF logRecord.Body.type = "MAP"
                  THEN copyAttributesWithoutMapping(logRecord.Body.m, named)
                  ELSE [named EXCEPT !.Properties =
                           Put(@, "Message", AttributeValueToString(logRecord.Body))]
        sev == IF logRecord.SeverityNumber = SeverityNumberUNDEFINED
               THEN bodied
               ELSE [bodied EXCEPT !.Properties =
                        Put(Put(@, "SeverityText",
                                SeverityTextString(logRecord.SeverityText)),
                            "SeverityNumber", FormatInt(logRecord.SeverityNumber))]
        res == copyAttributesWithoutMapping(resource.Attributes, sev) IN
    copyInstrumentationProperties(instrumentationLibrary, res)

\* mutant: the resource attributes are copied before the severity is written
logEventData_ResourceBeforeSeverity(resource, instrumentationLibrary, logRecord) ==
    LET data == [BaseType |-> "EventData", Name |-> "",
                 Properties |-> EmptyMap, Measurements |-> EmptyMap]
        attrs == copyAttributesWithoutMapping(logRecord.Attributes, data)
        named == [attrs EXCEPT !.Name = logRecord.Name]
        bodied == IF logRecord.Body.type = "MAP"
                  THEN copyAttributesWithoutMapping(logRecord.Body.m, named)
                  ELSE [named EXCEPT !.Properties =
                           Put(@, "Message", AttributeValueToString(logRecord.Body))]
        res == copyAttributesWithoutMapping(resource.Attributes, bodied)
        sev == [res EXCEPT !.Properties =
                   Put(Put(@, "SeverityText", SeverityTextString(logRecord.SeverityText)),
                       "SeverityNumber", FormatInt(logRecord.SeverityNumber))] IN
    copyInstrumentationProperties(instrumentationLibrary, sev)

\* the EventData branch
logEventData(resource, instrumentationLibrary, logRecord) ==
    LET data == [BaseType |-> "EventData", Name |-> "",
                 Properties |-> EmptyMap, Measurements |-> EmptyMap]
        attrs == copyAttributesWithoutMapping(logRecord.Attributes, data)
        named == [attrs EXCEPT !.Name = logRecord.Name]
        bodied == IF logRecord.Body.type = "MAP"
                  THEN copyAttributesWithoutMapping(logRecord.Body.m, named)
                  ELSE [named EXCEPT !.Properties =
                           Put(@, "Message", AttributeValueToString(logRecord.Body))]
        sev == [bodied EXCEPT !.Properties =
                   Put(Put(@, "SeverityText", SeverityTextString(logRecord.SeverityText)),
                       "SeverityNumber", FormatInt(logRecord.SeverityNumber))]
        res == copyAttributesWithoutMapping(resource.Attributes, sev) IN
    copyInstrumentationProperties(instrumentationLibrary, res)

\* mutant: the severity is not asked for; a string body is a message
logRecordEnvelope_MessageOnStringBody(resource, instrumentationLibrary, logRecord, sev) ==
    LET envelope == logEnvelopeHead(logRecord)
        data == IF logRecord.Body.type = "STRING"
                THEN logMessageData(resource, instrumentationLibrary, logRecord, sev.level)
                ELSE logEventData(resource, instrumentationLibrary, logRecord) IN
    [envelope EXCEPT
        !.Name = IF data.BaseType = "MessageData"
                 THEN "Microsoft.ApplicationInsights.Message"
                 ELSE "Microsoft.ApplicationInsights.Event",
        !.Data = [BaseType |-> data.BaseType, BaseData |-> data],
        !.Tags = cloudRoleTags(resource.Attributes, @)]

\* The envelope logRecordToEnvelope returns (its error is nil on every
\* path); sev is the result of its call of getSeverityLevel.
logRecordEnvelope(resource, instrumentationLibrary, logRecord, sev) ==
    LET envelope == logEnvelopeHead(logRecord)
        data == IF logRecord.Body.type = "STRING" /\ sev.found
                THEN logMessageData(resource, instrumentationLibrary, logRecord, sev.level)
                ELSE logEventData(resource, instrumentationLibrary, logRecord) IN
    [envelope EXCEPT
        !.Name = IF data.BaseType = "MessageData"
                 THEN "Microsoft.ApplicationInsights.Message"
                 ELSE "Microsoft.ApplicationInsights.Event",
        !.Data = [BaseType |-> data.BaseType, BaseData |-> data],
        !.Tags = cloudRoleTags(resource.Attributes, @)]

(***************************************************************************)
(* metricToEnvelopes(resource, instrumentationLibrary, metric, logger).    *)
(* A metric has a name, a data type and the data points of that type; the  *)
(* Value of an int point is an integer, the Value and Sum of a double      *)
(* point a float64.  The envelopes are MetricData with one DataPoint.      *)
(***************************************************************************)
IntTypes == {"IntGauge", "IntSum", "IntHistogram"}

GaugeAndSumTypes == {"IntGauge", "DoubleGauge", "IntSum", "DoubleSum"}

HistogramTypes == {"IntHistogram", "DoubleHistogram"}

\* envelope := contracts.NewEnvelope() ... envelope.Data = data, for the
\* data point dp, a DataPoint of the given name and value, and the labels
metricEnvelope(dp, name, value, properties) ==
    [IKey |-> "", Name |-> "", Time |-> FormatTime(dp.Timestamp), Tags |-> EmptyMap,
     Data |-> [Metrics |-> <<[Name |-> name, Value |-> value]>>,
               Properties |-> properties]]

\* dp.LabelsMap().ForEach(func(k, v) { data.Properties[k] = v })
labelProperties(dp) == dp.Labels

\* the envelope of a point of a gauge or a sum
gaugeEnvelopes(metric, dp) ==
    <<metricEnvelope(dp, metric.Name,
                     IF metric.DataType \in IntTypes THEN float64(dp.Value) ELSE dp.Value,
                     labelProperties(dp))>>

\* the envelope of bucket j (from 1) of a point of a histogram: the buckets
\* of an IntHistogram carry the labels, those of a DoubleHistogram do not
bucketEnvelope(metric, dp, j) ==
    LET labels == IF metric.DataType = "IntHistogram" THEN labelProperties(dp)
                  ELSE EmptyMap
        md == IF j <= Len(dp.ExplicitBounds)
              THEN Put(labels, "upper_bound", FormatFloat(dp.ExplicitBounds[j]))
              ELSE labels IN
    metricEnvelope(dp, metric.Name \o "_bucket", float64(dp.BucketCounts[j]), md)

\* mutant: the count envelope is appended before the sum envelope
histogramEnvelopes_CountFirst(metric, dp) ==
    LET envelopeCount == metricEnvelope(dp, metric.Name \o "_count", float64(dp.Count),
                                        labelProperties(dp))
        envelope == metricEnvelope(dp, metric.Name,
                        IF metric.DataType \in IntTypes THEN float64(dp.Sum) ELSE dp.Sum,
                        labelProperties(dp)) IN
    <<envelopeCount, envelope>>
        \o [j \in 1..Len(dp.BucketCounts) |-> bucketEnvelope(metric, dp, j)]

\* the envelopes of a point of a histogram:
\* append(envelopes, envelope, envelopeCount), then the buckets
histogramEnvelopes(metric, dp) ==
    LET envelopeCount == metricEnvelope(dp, metric.Name \o "_count", float64(dp.Count),
                                        labelProperties(dp))
        envelope == metricEnvelope(dp, metric.Name,
                        IF metric.DataType \in IntTypes THEN float64(dp.Sum) ELSE dp.Sum,
                        labelProperties(dp)) IN
    <<envelope, envelopeCount>>
        \o [j \in 1..Len(dp.BucketCounts) |-> bucketEnvelope(metric, dp, j)]

\* mutant: an absent point ends the loop over the points
RECURSIVE pointEnvelopes_StopAtNil(_, _)
pointEnvelopes_StopAtNil(metric, i) ==
    IF i > Len(metric.DataPoints) THEN <<>>
    ELSE LET dp == metric.DataPoints[i] IN
         IF dp.isNil THEN <<>>
         ELSE (IF metric.DataType \in HistogramTypes THEN histogramEnvelopes(metric, dp)
               ELSE gaugeEnvelopes(metric, dp))
              \o pointEnvelopes_StopAtNil(metric, i + 1)

\* the loop over the points from point i on: an absent point is skipped
RECURSIVE pointEnvelopes(_, _)
pointEnvelopes(metric, i) ==
    IF i > Len(metric.DataPoints) THEN <<>>
    ELSE LET dp == metric.DataPoints[i] IN
         IF dp.isNil THEN pointEnvelopes(metric, i + 1)
         ELSE (IF metric.DataType \in HistogramTypes THEN histogramEnvelopes(metric, dp)
               ELSE gaugeEnvelopes(metric, dp))
              \o pointEnvelopes(metric, i + 1)

\* resourceAttributes.ForEach(func(k, v) { data.Properties[k] = v.StringVal() })
RECURSIVE copyResourceStringVals(_, _, _)
copyResourceStringVals(resourceAttributes, keys, data) ==
    IF keys = {} THEN data
    ELSE LET k == CHOOSE key \in keys : TRUE IN
         copyResourceStringVals(resourceAttributes, keys \ {k},
             [data EXCEPT !.Properties = Put(@, k, StringVal(resourceAttributes[k]))])

\* the body of the loop over the envelopes; envelope.Data is the
\* MetricData the switch has stored
finalizeMetricEnvelope(resource, instrumentationLibrary, envelope) ==
    LET res == copyResourceStringVals(resource.Attributes, DOMAIN resource.Attributes,
                                      envelope.Data)
        data == copyInstrumentationProperties(instrumentationLibrary, res) IN
    [envelope EXCEPT !.Data = data, !.Tags = cloudRoleTags(resource.Attributes, @)]

\* The envelopes metricToEnvelopes returns (its error is nil on every
\* path): none for an absent metric, absent data or an unknown data type.
metricToEnvelopes(resource, instrumentationLibrary, metric) ==
    IF metric.isNil THEN <<>>
    ELSE IF metric.DataType \notin (GaugeAndSumTypes \cup HistogramTypes) THEN <<>>
    ELSE IF metric.dataNil THEN <<>>
    ELSE LET envelopes == pointEnvelopes(metric, 1) IN
         [i \in 1..Len(envelopes) |->
             finalizeMetricEnvelope(resource, instrumentationLibrary, envelopes[i])]

(***************************************************************************)
(* Direct calls of the translators.  A caller builds the arguments field   *)
(* by field from empty ones (an empty resource, an absent instrumentation  *)
(* library, an empty log record or a metric without points), MaxFields     *)
(* fields, attributes, points, labels and buckets at most, and calls.      *)
(***************************************************************************)
MaxFields == 4

NilInstrumentationLibrary == [isNil |-> TRUE, Name |-> "", Version |-> ""]

InstrumentationLibraries ==
    {[isNil |-> FALSE, Name |-> "", Version |-> ""],
     [isNil |-> FALSE, Name |-> "lib", Version |-> ""],
     [isNil |-> FALSE, Name |-> "lib", Version |-> "1.0"]}

EmptyResource == [Attributes |-> EmptyMap]

ResourceAttributes ==
    {<<AttributeServiceName, NewAttributeValueString("svc")>>,
     <<AttributeServiceNamespace, NewAttributeValueString("ns")>>,
     <<AttributeServiceInstance, NewAttributeValueString("inst-1")>>,
     <<"host.name", NewAttributeValueString("host")>>,
     <<"process.pid", NewAttributeValueInt(42)>>}

EmptyLogRecord ==
    [TraceID |-> "", SpanID |-> "", Timestamp |-> 0,
     SeverityNumber |-> SeverityNumberUNDEFINED,
     SeverityText |-> [word |-> "", suffix |-> <<>>],
     Name |-> "", Body |-> NewAttributeValueNull, Attributes |-> EmptyMap]

\* the settings of one field of a log record
LogRecordSettings ==
    {<<"TraceID", "0102030405060708090a0b0c0d0e0f10">>,
     <<"SpanID", "0102030405060708">>,
     <<"SeverityNumber", 10>>,
     <<"SeverityNumber", 17>>,
     <<"SeverityText", [word |-> "warn", suffix |-> <<>>]>>,
     <<"SeverityText", [word |-> "info", suffix |-> <<"2">>]>>,
     <<"SeverityText", [word |-> "OFF", suffix |-> <<>>]>>,
     <<"Name", "logName">>,
     <<"Body", NewAttributeValueString("hello")>>,
     <<"Body", NewAttributeValueInt(7)>>,
     <<"Body", NewAttributeValueArray>>,
     <<"Body", NewAttributeValueMap(Put(Put(EmptyMap, "bodyKey",
                                            NewAttributeValueString("bodyValue")),
                                        "bodyNum", NewAttributeValueInt(3)))>>}

LogAttributes ==
    {<<"keyString", NewAttributeValueString("arithmetic")>>,
     <<"keyBool", NewAttributeValueBool(TRUE)>>,
     <<"keyInt", NewAttributeValueInt(123)>>,
     <<"keyDouble", NewAttributeValueDouble(3)>>,
     <<"keyNull", NewAttributeValueNull>>,
     <<"keyMap", NewAttributeValueMap(EmptyMap)>>,
     <<"keyArray", NewAttributeValueArray>>}

MetricDataTypes == GaugeAndSumTypes \cup HistogramTypes \cup {"None"}

EmptyMetric(isNil, dataType, dataNil) ==
    [isNil |-> isNil, Name |-> "m", DataType |-> dataType, dataNil |-> dataNil,
     DataPoints |-> <<>>]

NilDataPoint ==
    [isNil |-> TRUE, Timestamp |-> 0, Value |-> 0, Count |-> 0, Sum |-> 0,
     Labels |-> EmptyMap, BucketCounts |-> <<>>, ExplicitBounds |-> <<>>]

\* a present point: of a gauge or a sum with the value v, of a histogram
\* with the sum v and the count v + 1
NewDataPoint(dataType, timestamp, v) ==
    IF dataType \in HistogramTypes
    THEN [NilDataPoint EXCEPT !.isNil = FALSE, !.Timestamp = timestamp,
                              !.Sum = v, !.Count = v + 1]
    ELSE [NilDataPoint EXCEPT !.isNil = FALSE, !.Timestamp = timestamp, !.Value = v]

RECURSIVE PointFields(_)
PointFields(dps) ==
    IF dps = <<>> THEN 0
    ELSE 1 + Cardinality(DOMAIN Head(dps).Labels) + Len(Head(dps).BucketCounts)
           + Len(Head(dps).ExplicitBounds) + PointFields(Tail(dps))

\* the number of fields the caller has set
Fields(in) ==
    Cardinality(DOMAIN in.resource.Attributes)
    + (IF in.instrumentationLibrary.isNil THEN 0 ELSE 1)
    + (IF translation.fn = "metricToEnvelopes" THEN PointFields(in.metric.DataPoints)
       ELSE Cardinality({f \in {"TraceID", "SpanID", "SeverityNumber", "SeverityText",
                                "Name", "Body"} :
                            in.logRecord[f] # EmptyLogRecord[f]})
            + Cardinality(DOMAIN in.logRecord.Attributes))

Building(fn) ==
    /\ translation.fn = fn
    /\ translation.pc = "input"
    /\ Fields(translation.in) < MaxFields

\* a caller is about to call logRecordToEnvelope
LogInput ==
    /\ translation.pc = "idle"
    /\ translation' = [fn |-> "logRecordToEnvelope", pc |-> "input",
                       in |-> [resource |-> EmptyResource,
                               instrumentationLibrary |-> NilInstrumentationLibrary,
                               logRecord |-> EmptyLogRecord],
                       out |-> <<>>]
    /\ UNCHANGED <<calls, sent>>

\* logRecord.SetTraceID, SetSpanID, SetSeverityNumber, SetSeverityText,
\* SetName or Body().Set..., of a field not yet set
SetLogRecordField ==
    /\ Building("logRecordToEnvelope")
    /\ \E setting \in LogRecordSettings :
          /\ translation.in.logRecord[setting[1]] = EmptyLogRecord[setting[1]]
          /\ translation' = [translation EXCEPT !.in.logRecord[setting[1]] = setting[2]]
    /\ UNCHANGED <<calls, sent>>

\* logRecord.Attributes().Insert of a new key
InsertLogAttribute ==
    /\ Building("logRecordToEnvelope")
    /\ \E a \in LogAttributes :
          /\ ~Exists(translation.in.logRecord.Attributes, a[1])
          /\ translation' = [translation EXCEPT !.in.logRecord.Attributes = Put(@, a[1], a[2])]
    /\ UNCHANGED <<calls, sent>>

\* resource.Attributes().Insert of a new key, for either translator
InsertResourceAttribute ==
    /\ \/ Building("logRecordToEnvelope")
       \/ Building("metricToEnvelopes")
    /\ \E a \in ResourceAttributes :
          /\ ~Exists(translation.in.resource.Attributes, a[1])
          /\ translation' = [translation EXCEPT !.in.resource.Attributes = Put(@, a[1], a[2])]
    /\ UNCHANGED <<calls, sent>>

\* the instrumentation library is present, for either translator
SetInstrumentationLibrary ==
    /\ \/ Building("logRecordToEnvelope")
       \/ Building("metricToEnvelopes")
    /\ translation.in.instrumentationLibrary.isNil
    /\ \E il \in InstrumentationLibraries :
          translation' = [translation EXCEPT !.in.instrumentationLibrary = il]
    /\ UNCHANGED <<calls, sent>>

\* the call of logRecordToEnvelope, which calls getSeverityLevel
LogCall ==
    /\ translation.fn = "logRecordToEnvelope"
    /\ translation.pc = "input"
    /\ LET in == translation.in IN
       \E sev \in getSeverityLevel(in.logRecord.SeverityNumber, in.logRecord.SeverityText) :
          translation' = [translation EXCEPT
                             !.pc = "done",
                             !.out = <<logRecordEnvelope(in.resource,
                                                         in.instrumentationLibrary,
                                                         in.logRecord, sev)>>]
    /\ UNCHANGED <<calls, sent>>

\* a caller is about to call metricToEnvelopes, on an absent metric, on a
\* metric whose data is absent or on a metric without points
MetricInput ==
    /\ translation.pc = "idle"
    /\ \E isNil \in BOOLEAN, dataType \in MetricDataTypes, dataNil \in BOOLEAN :
          /\ isNil => (dataType = "None" /\ ~dataNil)
          /\ dataNil => dataType # "None"
          /\ translation' = [fn |-> "metricToEnvelopes", pc |-> "input",
                             in |-> [resource |-> EmptyResource,
                                     instrumentationLibrary |-> NilInstrumentationLibrary,
                                     metric |-> EmptyMetric(isNil, dataType, dataNil)],
                             out |-> <<>>]
    /\ UNCHANGED <<calls, sent>>

\* DataPoints().Append of an absent or of a present point
AppendDataPoint ==
    /\ Building("metricToEnvelopes")
    /\ LET metric == translation.in.metric IN
       /\ ~metric.isNil /\ ~metric.dataNil /\ metric.DataType # "None"
       /\ \E dp \in {NilDataPoint} \cup
                    {NewDataPoint(metric.DataType, t, v) : t \in {0, 5}, v \in {1, 3}} :
             translation' = [translation EXCEPT !.in.metric.DataPoints = Append(@, dp)]
    /\ UNCHANGED <<calls, sent>>

\* LabelsMap().Insert on the last point
InsertLabel ==
    /\ Building("metricToEnvelopes")
    /\ LET dps == translation.in.metric.DataPoints
           n == Len(dps) IN
       /\ n > 0
       /\ ~dps[n].isNil
       /\ \E k \in {"label", "zone"} :
             /\ ~Exists(dps[n].Labels, k)
             /\ translation' = [translation EXCEPT
                                   !.in.metric.DataPoints[n].Labels = Put(@, k, k \o "-value")]
    /\ UNCHANGED <<calls, sent>>

\* a bucket count or an explicit bound more on the last point of a histogram
AppendBucket ==
    /\ Building("metricToEnvelopes")
    /\ LET dps == translation.in.metric.DataPoints
           n == Len(dps) IN
       /\ n > 0
       /\ ~dps[n].isNil
       /\ translation.in.metric.DataType \in HistogramTypes
       /\ \/ \E count \in {1, 2} :
                translation' = [translation EXCEPT
                                   !.in.metric.DataPoints[n].BucketCounts = Append(@, count)]
          \/ \E bound \in {1, 4} :
                translation' = [translation EXCEPT
                                   !.in.metric.DataPoints[n].ExplicitBounds = Append(@, bound)]
    /\ UNCHANGED <<calls, sent>>

\* the call of metricToEnvelopes
MetricCall ==
    /\ translation.fn = "metricToEnvelopes"
    /\ translation.pc = "input"
    /\ LET in == translation.in IN
       translation' = [translation EXCEPT
                          !.pc = "done",
                          !.out = metricToEnvelopes(in.resource, in.instrumentationLibrary,
                                                    in.metric)]
    /\ UNCHANGED <<calls, sent>>

NextTranslate ==
    \/ LogInput
    \/ SetLogRecordField
    \/ InsertLogAttribute
    \/ InsertResourceAttribute
    \/ SetInstrumentationLibrary
    \/ LogCall
    \/ MetricInput
    \/ AppendDataPoint
    \/ InsertLabel
    \/ AppendBucket
    \/ MetricCall

SpecTranslate == Init /\ [][NextTranslate]_vars

(***************************************************************************)
(* Vocabulary of the properties of the translators.                        *)
(***************************************************************************)
LogDone == translation.fn = "logRecordToEnvelope" /\ translation.pc = "done"

MetricDone == translation.fn = "metricToEnvelopes" /\ translation.pc = "done"

\* the envelopes the translator called has returned
Produced == IF LogDone \/ MetricDone THEN Range(translation.out) ELSE {}

\* the payload of an envelope: MessageData, EventData or MetricData
PayloadOf(e) == IF LogDone THEN e.Data.BaseData ELSE e.Data

\* the value of a tag, or "(none)" when the tag is not set
TagOf(e, tag) == IF tag \in DOMAIN e.Tags THEN e.Tags[tag] ELSE "(none)"

\* the trace id and the span id of the record translated, with the
\* all-zero placeholders for an absent one; a metric has neither
TraceIDOrZeros ==
    IF LogDone /\ translation.in.logRecord.TraceID # ""
    THEN translation.in.logRecord.TraceID
    ELSE "00000000000000000000000000000000"

SpanIDOrZeros ==
    IF LogDone /\ translation.in.logRecord.SpanID # ""
    THEN translation.in.logRecord.SpanID
    ELSE "0000000000000000"

(***************************************************************************)
(* C11 as stated.  Every envelope a translator produces, of a log record   *)
(* or of a metric, has Tags[OperationId] equal to the trace id (32 hex     *)
(* characters, all zero when absent) and Tags[OperationParentId] equal to  *)
(* "|" + trace id + "." + span id (16 hex characters, all zero when        *)
(* absent).                                                                *)
(***************************************************************************)
C11_OperationTagsOnEveryEnvelope ==
    \A e \in Produced :
        /\ TagOf(e, OperationId) = TraceIDOrZeros
        /\ TagOf(e, OperationParentId) = "|" \o TraceIDOrZeros \o "." \o SpanIDOrZeros

(***************************************************************************)
(* C11, amended.  The envelope of a log record has Tags[OperationId] equal *)
(* to the trace id (all zero when absent) and Tags[OperationParentId]      *)
(* equal to "|" + trace id + "." + span id (all zero when absent); the     *)
(* envelopes of a metric have neither tag.                                 *)
(***************************************************************************)
C11_OperationTags ==
    \A e \in Produced :
        IF LogDone
        THEN /\ TagOf(e, OperationId) = TraceIDOrZeros
             /\ Len(TagOf(e, OperationId)) = 32
             /\ TagOf(e, OperationParentId) = "|" \o TraceIDOrZeros \o "." \o SpanIDOrZeros
             /\ Len(TagOf(e, OperationParentId)) = 50
        ELSE /\ OperationId \notin DOMAIN e.Tags
             /\ OperationParentId \notin DOMAIN e.Tags

\* a log record with a trace id and without a span id has been translated
C11_Witness ==
    /\ LogDone
    /\ translation.in.logRecord.TraceID # ""
    /\ translation.in.logRecord.SpanID = ""
    /\ \E e \in Produced :
          e.Tags[OperationParentId] = "|0102030405060708090a0b0c0d0e0f10.0000000000000000"

(***************************************************************************)
(* C12.  Every envelope produced has Tags[CloudRole] = NS.N when the       *)
(* resource has service.name N and service.namespace NS, N when it has     *)
(* service.name alone, and no CloudRole tag when it has no service.name,   *)
(* with or without a namespace; Tags[CloudRoleInstance] is the value of    *)
(* service.instance.id exactly when the resource has that attribute.       *)
(***************************************************************************)
C12_CloudRoleTags ==
    \A e \in Produced :
        LET attrs == translation.in.resource.Attributes
            hasName == "service.name" \in DOMAIN attrs
            hasNamespace == "service.namespace" \in DOMAIN attrs
            hasInstance == "service.instance.id" \in DOMAIN attrs IN
        /\ (hasName /\ hasNamespace) =>
              TagOf(e, "ai.cloud.role") = attrs["service.namespace"].s \o "."
                                             \o attrs["service.name"].s
        /\ (hasName /\ ~hasNamespace) =>
              TagOf(e, "ai.cloud.role") = attrs["service.name"].s
        /\ ~hasName => "ai.cloud.role" \notin DOMAIN e.Tags
        /\ hasInstance =>
              TagOf(e, "ai.cloud.roleInstance") = attrs["service.instance.id"].s
        /\ ~hasInstance => "ai.cloud.roleInstance" \notin DOMAIN e.Tags

\* a metric of a resource with service.name, service.namespace and
\* service.instance.id has been translated into an envelope
C12_Witness ==
    /\ MetricDone
    /\ \E e \in Produced :
          /\ TagOf(e, "ai.cloud.role") = "ns.svc"
          /\ TagOf(e, "ai.cloud.roleInstance") = "inst-1"

(***************************************************************************)
(* C13.  logRecordToEnvelope produces exactly one envelope for a log       *)
(* record.  It is a MessageData, with Message the body and SeverityLevel   *)
(* the level getSeverityLevel found, exactly when the body is a string and *)
(* the severity is known; otherwise it is an EventData.                    *)
(***************************************************************************)
C13_PayloadChoice ==
    LogDone =>
        LET logRecord == translation.in.logRecord
            sevs == getSeverityLevel(logRecord.SeverityNumber, logRecord.SeverityText)
            known == \E sev \in sevs : sev.found
            data == translation.out[1].Data IN
        /\ Len(translation.out) = 1
        /\ data.BaseType \in {"MessageData", "EventData"}
        /\ data.BaseType = "MessageData" <=> (logRecord.Body.type = "STRING" /\ known)
        /\ data.BaseType = "MessageData" =>
              /\ data.BaseData.Message = logRecord.Body.s
              /\ \E sev \in sevs : data.BaseData.SeverityLevel = sev.level

\* a record of severity INFO2 with the body "hello" has become a
\* MessageData of level Information
C13_Witness ==
    /\ LogDone
    /\ translation.in.logRecord.SeverityNumber = 10
    /\ translation.out[1].Data.BaseType = "MessageData"
    /\ translation.out[1].Data.BaseData.Message = "hello"
    /\ translation.out[1].Data.BaseData.SeverityLevel = "Information"

\* the payload of the envelope of the log record translated
LogData == translation.out[1].Data.BaseData

\* the string a scalar attribute value is written as
AsString(v) ==
    CASE v.type = "STRING" -> v.s
      [] v.type = "BOOL" -> (IF v.b THEN "true" ELSE "false")
      [] v.type = "INT" -> ToString(v.n)
      [] v.type = "DOUBLE" -> FormatFloat(v.n)
      [] OTHER -> ""

\* the double an int or double attribute value is
AsDouble(v) == IF v.type = "INT" THEN 2 * v.n ELSE v.n

\* the entry of key k in Properties (for a string or a bool) or in
\* Measurements (for an int or a double) holds the value v
Coerced(data, k, v) ==
    /\ v.type \in {"STRING", "BOOL"} =>
          /\ k \in DOMAIN data.Properties
          /\ data.Properties[k] = AsString(v)
          /\ k \notin DOMAIN data.Measurements
    /\ v.type \in {"INT", "DOUBLE"} =>
          /\ k \in DOMAIN data.Measurements
          /\ data.Measurements[k] = AsDouble(v)
          /\ k \notin DOMAIN data.Properties

C17_AttributeCoercionInEveryPayload ==
    LogDone =>
        LET attrs == translation.in.logRecord.Attributes
            properties == LogData.Properties
            measurements == IF "Measurements" \in DOMAIN LogData
                            THEN LogData.Measurements ELSE EmptyMap IN
        \A k \in DOMAIN attrs :
            /\ attrs[k].type \in {"STRING", "BOOL"} =>
                  (k \in DOMAIN properties /\ k \notin DOMAIN measurements)
            /\ attrs[k].type \in {"INT", "DOUBLE"} =>
                  (k \in DOMAIN measurements /\ k \notin DOMAIN properties)
            /\ attrs[k].type \notin {"MAP", "ARRAY"} =>
                  (k \in DOMAIN properties \/ k \in DOMAIN measurements)

(***************************************************************************)
(* C17, amended.  In an EventData envelope every string or bool attribute  *)
(* of the record is a string entry of Properties and every int or double   *)
(* attribute a double entry of Measurements, each key once, and the        *)
(* attributes of any other type (map, array, null) are left out.  In a     *)
(* MessageData envelope, which has no Measurements, every attribute of the *)
(* record, whatever its type, is a string entry of Properties.             *)
(***************************************************************************)
C17_AttributeCoercion ==
    LogDone =>
        LET attrs == translation.in.logRecord.Attributes IN
        IF LogData.BaseType = "EventData"
        THEN \A k \in DOMAIN attrs :
                /\ Coerced(LogData, k, attrs[k])
                /\ attrs[k].type \notin {"STRING", "BOOL", "INT", "DOUBLE"} =>
                      (k \notin DOMAIN LogData.Properties
                       /\ k \notin DOMAIN LogData.Measurements)
        ELSE /\ "Measurements" \notin DOMAIN LogData
             /\ \A k \in DOMAIN attrs :
                   /\ k \in DOMAIN LogData.Properties
                   /\ attrs[k].type \in {"STRING", "BOOL", "INT", "DOUBLE", "NULL"} =>
                         LogData.Properties[k] = AsString(attrs[k])

\* a MessageData holds an int attribute as a string property
C17_Witness ==
    /\ LogDone
    /\ LogData.BaseType = "MessageData"
    /\ "keyInt" \in DOMAIN translation.in.logRecord.Attributes
    /\ LogData.Properties["keyInt"] = "123"

(***************************************************************************)
(* C18.  For every envelope of the log and metric translators and every    *)
(* resource attribute key k, Properties[k] is present and holds the value  *)
(* of the attribute as a string, whatever its type, and no resource        *)
(* attribute is in Measurements.                                           *)
(***************************************************************************)
C18_ResourceAttributesAsProperties ==
    \A e \in Produced :
        LET attrs == translation.in.resource.Attributes
            data == PayloadOf(e) IN
        \A k \in DOMAIN attrs :
            /\ k \in DOMAIN data.Properties
            /\ data.Properties[k] = AsString(attrs[k])
            /\ "Measurements" \in DOMAIN data => k \notin DOMAIN data.Measurements

\* the points of the metric translated that are present, in their order
PresentPoints == SelectSeq(translation.in.metric.DataPoints, LAMBDA dp : ~dp.isNil)

\* a metric of one of the given data types, with its data, has been translated
MetricOfDone(types) ==
    /\ MetricDone
    /\ ~translation.in.metric.isNil
    /\ ~translation.in.metric.dataNil
    /\ translation.in.metric.DataType \in types

\* a value of the metric as a double: an int value is converted
ValueAsDouble(v) ==
    IF translation.in.metric.DataType \in {"IntGauge", "IntSum", "IntHistogram"}
    THEN 2 * v ELSE v

(***************************************************************************)
(* C19.  For an IntGauge, DoubleGauge, IntSum or DoubleSum metric,         *)
(* metricToEnvelopes returns one envelope per present data point, in the   *)
(* order of the points: a single DataPoint with the name of the metric and *)
(* the value of the point as a double, Time the timestamp of the point,    *)
(* and the labels of the point in Properties.  An absent point gives no    *)
(* envelope and leaves the order of the others.                            *)
(***************************************************************************)
C19_GaugeAndSumExpansion ==
    MetricOfDone({"IntGauge", "DoubleGauge", "IntSum", "DoubleSum"}) =>
        /\ Len(translation.out) = Len(PresentPoints)
        /\ \A i \in 1..Len(PresentPoints) :
              LET dp == PresentPoints[i]
                  e == translation.out[i] IN
              /\ e.Data.Metrics = <<[Name |-> translation.in.metric.Name,
                                     Value |-> ValueAsDouble(dp.Value)]>>
              /\ e.Time = FormatTime(dp.Timestamp)
              /\ \A k \in DOMAIN dp.Labels :
                    k \in DOMAIN e.Data.Properties /\ e.Data.Properties[k] = dp.Labels[k]

\* an IntSum with the points 1, absent, 3 has given two envelopes, the
\* second one of a later time and with a label
C19_Witness ==
    /\ MetricOfDone({"IntSum"})
    /\ Len(translation.in.metric.DataPoints) = 3
    /\ translation.in.metric.DataPoints[2].isNil
    /\ Len(translation.out) = 2
    /\ translation.out[1].Data.Metrics[1].Value = 2
    /\ translation.out[2].Data.Metrics[1].Value = 6
    /\ translation.out[1].Time # translation.out[2].Time

\* what the claim expects of the envelopes of a histogram point: name,
\* value and upper bound ("(none)" when there is to be none)
C20_ExpectedOfPoint(dp) ==
    <<[Name |-> translation.in.metric.Name, Value |-> ValueAsDouble(dp.Sum),
       upper_bound |-> "(none)"],
      [Name |-> translation.in.metric.Name \o "_count", Value |-> 2 * dp.Count,
       upper_bound |-> "(none)"]>>
    \o [j \in 1..Len(dp.BucketCounts) |->
           [Name |-> translation.in.metric.Name \o "_bucket",
            Value |-> 2 * dp.BucketCounts[j],
            upper_bound |-> IF j <= Len(dp.ExplicitBounds)
                            THEN FormatFloat(dp.ExplicitBounds[j]) ELSE "(none)"]]

RECURSIVE C20_Expected(_)
C20_Expected(dps) ==
    IF dps = <<>> THEN <<>>
    ELSE C20_ExpectedOfPoint(Head(dps)) \o C20_Expected(Tail(dps))

\* name, value and upper bound of the envelopes returned
C20_Returned ==
    [i \in 1..Len(translation.out) |->
        LET e == translation.out[i] IN
        [Name |-> e.Data.Metrics[1].Name, Value |-> e.Data.Metrics[1].Value,
         upper_bound |-> IF "upper_bound" \in DOMAIN e.Data.Properties
                         THEN e.Data.Properties["upper_bound"] ELSE "(none)"]]

(***************************************************************************)
(* C20.  For every present data point of an IntHistogram or                *)
(* DoubleHistogram metric named m, metricToEnvelopes returns, in this      *)
(* order, an envelope named m with the sum, an envelope named m_count with *)
(* the count and an envelope named m_bucket for every bucket j, in index   *)
(* order, with bucketCounts[j]; bucket j has Properties["upper_bound"] =   *)
(* explicitBounds[j] exactly when j < len(explicitBounds).  A point gives  *)
(* 2 + len(bucketCounts) envelopes.                                        *)
(***************************************************************************)
C20_HistogramExpansion ==
    MetricOfDone({"IntHistogram", "DoubleHistogram"}) =>
        /\ C20_Returned = C20_Expected(PresentPoints)
        /\ \A e \in Produced : Len(e.Data.Metrics) = 1

\* a histogram point with the bucket counts 1, 2 and the bound 0.5 has
\* given four envelopes: sum, count, a bucket up to 0.5 and the overflow
C20_Witness ==
    /\ MetricOfDone({"DoubleHistogram"})
    /\ Len(translation.in.metric.DataPoints) = 1
    /\ translation.in.metric.DataPoints[1].BucketCounts = <<1, 2>>
    /\ translation.in.metric.DataPoints[1].ExplicitBounds = <<1>>
    /\ Len(translation.out) = 4
    /\ translation.out[3].Data.Properties["upper_bound"] = "0.5"
    /\ "upper_bound" \notin DOMAIN translation.out[4].Data.Properties

(***************************************************************************)
(* C28.  The classification of a severity text is a function of the text:  *)
(* at most one of the five patterns matches a text, so getSeverityLevel    *)
(* with SeverityNumber UNDEFINED has one possible result whatever the      *)
(* order in which the pattern table is walked, and a call returns it.      *)
(***************************************************************************)
C28_TextClassificationIsFunction ==
    (translation.fn = "getSeverityLevel"
        /\ translation.in.SeverityNumber = SeverityNumberUNDEFINED) =>
        LET text == translation.in.SeverityText
            matching == {level \in SeverityLevels : MatchString(level, text)}
            results == getSeverityLevel(SeverityNumberUNDEFINED, text) IN
        /\ Cardinality(matching) <= 1
        /\ Cardinality(results) = 1
        /\ SeverityDone =>
              /\ results = {translation.out}
              /\ translation.out.found <=> matching # {}
              /\ translation.out.found => matching = {translation.out.level}

\* the text "Informational3", which begins with the names INFO and
\* Information, has been classified Information
C28_Witness ==
    /\ SeverityDone
    /\ translation.in.SeverityNumber = SeverityNumberUNDEFINED
    /\ translation.in.SeverityText = [word |-> "Informational", suffix |-> <<"3">>]
    /\ translation.out = [found |-> TRUE, level |-> "Information"]

\* the number of envelopes of the first n present points of a histogram
RECURSIVE C29_EnvelopesBefore(_)
C29_EnvelopesBefore(n) ==
    IF n = 0 THEN 0
    ELSE C29_EnvelopesBefore(n - 1) + 2 + Len(PresentPoints[n].BucketCounts)

(***************************************************************************)
(* C29.  Every envelope of one histogram data point (the sum envelope, the *)
(* count envelope and every bucket envelope) carries all labels of the     *)
(* point in its Properties and has the Time of the point, for IntHistogram *)
(* and DoubleHistogram metrics alike.                                      *)
(***************************************************************************)
C29_LabelsAndTimeOnHistogramEnvelopes ==
    MetricOfDone({"IntHistogram", "DoubleHistogram"}) =>
        \A n \in 1..Len(PresentPoints) :
            LET dp == PresentPoints[n] IN
            \A i \in (C29_EnvelopesBefore(n - 1) + 1)..C29_EnvelopesBefore(n) :
                LET e == translation.out[i] IN
                /\ e.Time = FormatTime(dp.Timestamp)
                /\ \A k \in DOMAIN dp.Labels :
                      /\ k \in DOMAIN e.Data.Properties
                      /\ e.Data.Properties[k] = dp.Labels[k]

\* the envelope name that identifies a payload schema
C23_NameOf ==
    [MessageData |-> "Microsoft.ApplicationInsights.Message",
     EventData |-> "Microsoft.ApplicationInsights.Event",
     MetricData |-> "Microsoft.ApplicationInsights.Metric"]

(***************************************************************************)
(* C23.  Every envelope a translator produces, of a log record or of a     *)
(* metric, has a non-empty Name that identifies its payload and a Data     *)
(* wrapper whose BaseType names the schema of the payload (MessageData or  *)
(* EventData for a log record, MetricData for a metric) and whose BaseData *)
(* is the payload.                                                         *)
(***************************************************************************)
C23_EnvelopeWireShape ==
    \A e \in Produced :
        /\ e.Name # ""
        /\ DOMAIN e.Data = {"BaseType", "BaseData"}
        /\ e.Data.BaseType \in (IF LogDone THEN {"MessageData", "EventData"}
                                ELSE {"MetricData"})
        /\ e.Name = C23_NameOf[e.Data.BaseType]
        /\ "Properties" \in DOMAIN e.Data.BaseData

(***************************************************************************)
(* The protocol of a record and the HTTP status (log_record_to_envelope.go, *)
(* the mapping taken over from the trace exporter).  A record here has a   *)
(* name, a status and attributes; its status is unset, Ok (code 0) or an   *)
(* error code.                                                             *)
(***************************************************************************)
MaxAttributes == 3

\* the attribute keys of package conventions that the mapping reads
conventions ==
    [AttributeHTTPMethod |-> "http.method",
     AttributeHTTPStatusCode |-> "http.status_code",
     AttributeRPCSystem |-> "rpc.system",
     AttributeMessagingSystem |-> "messaging.system",
     AttributeFaaSTrigger |-> "faas.trigger"]

attributeDBSystem == "db.system"

\* mutant: db.system is looked up before http.method and rpc.system
mapIncomingLogRecordToType_DatabaseFirst(attributeMap) ==
    IF Cardinality(DOMAIN attributeMap) = 0 THEN "unknownLogRecordType"
    ELSE IF Exists(attributeMap, attributeDBSystem) THEN "databaseLogRecordType"
    ELSE IF Exists(attributeMap, conventions.AttributeHTTPMethod) THEN "httpLogRecordType"
    ELSE IF Exists(attributeMap, conventions.AttributeRPCSystem) THEN "rpcLogRecordType"
    ELSE IF Exists(attributeMap, conventions.AttributeMessagingSystem)
    THEN "messagingLogRecordType"
    ELSE IF Exists(attributeMap, conventions.AttributeFaaSTrigger) THEN "faasLogRecordType"
    ELSE "unknownLogRecordType"

mapIncomingLogRecordToType(attributeMap) ==
    IF Cardinality(DOMAIN attributeMap) = 0 THEN "unknownLogRecordType"
    ELSE IF Exists(attributeMap, conventions.AttributeHTTPMethod) THEN "httpLogRecordType"
    ELSE IF Exists(attributeMap, conventions.AttributeRPCSystem) THEN "rpcLogRecordType"
    ELSE IF Exists(attributeMap, attributeDBSystem) THEN "databaseLogRecordType"
    ELSE IF Exists(attributeMap, conventions.AttributeMessagingSystem)
    THEN "messagingLogRecordType"
    ELSE IF Exists(attributeMap, conventions.AttributeFaaSTrigger) THEN "faasLogRecordType"
    ELSE "unknownLogRecordType"

\* ResponseCode / ResultCode and Success from the status of the record:
\* "0" and true for an unset or Ok status, the code and false otherwise
getDefaultFormattedLogRecordStatus(status) ==
    IF status.isNil \/ status.code = 0 THEN [code |-> "0", success |-> TRUE]
    ELSE [code |-> FormatInt(status.code), success |-> FALSE]

\* mutant: every code below 400 is a success
getFormattedHTTPStatusValues_NoLowerLimit(statusCode) ==
    [statusAsString |-> FormatInt(statusCode), success |-> statusCode <= 399]

getFormattedHTTPStatusValues(statusCode) ==
    [statusAsString |-> FormatInt(statusCode),
     success |-> statusCode >= 100 /\ statusCode <= 399]

\* attrs.MapAttribute(k, v) of HTTPAttributes extracts the canonical
\* attributes: here the method and the status code of integer type
MapAttribute(attrs, k, v) ==
    IF k = conventions.AttributeHTTPMethod THEN [attrs EXCEPT !.HTTPMethod = StringVal(v)]
    ELSE IF k = conventions.AttributeHTTPStatusCode /\ v.type = "INT"
    THEN [attrs EXCEPT !.HTTPStatusCode = v.n]
    ELSE attrs

\* attrs := &HTTPAttributes{}; every attribute is copied to properties or
\* measurements and handed to MapAttribute (which reads two of the keys)
copyAndExtractHTTPAttributes(attributeMap, data) ==
    LET mapped(attrs, k) == IF Exists(attributeMap, k)
                            THEN MapAttribute(attrs, k, attributeMap[k]) ELSE attrs IN
    [data |-> copyAndMapAttributes(attributeMap, DOMAIN attributeMap, data),
     attrs |-> mapped(mapped([HTTPMethod |-> "", HTTPStatusCode |-> 0],
                             conventions.AttributeHTTPMethod),
                      conventions.AttributeHTTPStatusCode)]

\* the record carries no route, so the name is the method and the name of
\* the record; it carries no URL or address attribute, so Url and Source
\* stay as they are
fillRequestDataHTTP(logRecord, data) ==
    LET x == copyAndExtractHTTPAttributes(logRecord.Attributes, data)
        status == getFormattedHTTPStatusValues(x.attrs.HTTPStatusCode)
        coded == IF x.attrs.HTTPStatusCode # 0
                 THEN [x.data EXCEPT !.ResponseCode = status.statusAsString,
                                     !.Success = status.success]
                 ELSE x.data IN
    [coded EXCEPT !.Name = x.attrs.HTTPMethod \o " " \o logRecord.Name]

\* ... and Data and Target stay as they are
fillRemoteDependencyDataHTTP(logRecord, data) ==
    LET x == copyAndExtractHTTPAttributes(logRecord.Attributes, data)
        typed == [x.data EXCEPT !.Type = "HTTP"]
        status == getFormattedHTTPStatusValues(x.attrs.HTTPStatusCode)
        coded == IF x.attrs.HTTPStatusCode # 0
                 THEN [typed EXCEPT !.ResultCode = status.statusAsString,
                                    !.Success = status.success]
                 ELSE typed IN
    [coded EXCEPT !.Name = x.attrs.HTTPMethod]

\* for a record of type HTTP or unknown
logRecordToRequestData(logRecord, incomingLogRecordType) ==
    LET default == getDefaultFormattedLogRecordStatus(logRecord.Status)
        data == [Name |-> logRecord.Name, ResponseCode |-> default.code,
                 Success |-> default.success, Url |-> "", Source |-> "",
                 Properties |-> EmptyMap, Measurements |-> EmptyMap] IN
    CASE incomingLogRecordType = "httpLogRecordType" -> fillRequestDataHTTP(logRecord, data)
      [] incomingLogRecordType = "unknownLogRecordType" ->
             copyAttributesWithoutMapping(logRecord.Attributes, data)
      [] OTHER -> data

\* for a record of type HTTP or unknown
logRecordToRemoteDependencyData(logRecord, incomingLogRecordType) ==
    LET default == getDefaultFormattedLogRecordStatus(logRecord.Status)
        data == [Name |-> logRecord.Name, ResultCode |-> default.code,
                 Success |-> default.success, Type |-> "", Data |-> "", Target |-> "",
                 Properties |-> EmptyMap, Measurements |-> EmptyMap] IN
    CASE incomingLogRecordType = "httpLogRecordType" ->
             fillRemoteDependencyDataHTTP(logRecord, data)
      [] incomingLogRecordType = "unknownLogRecordType" ->
             copyAttributesWithoutMapping(logRecord.Attributes, data)
      [] OTHER -> data

HTTPStatusCodes == {0, 99, 100, 200, 399, 400, 404}

ProtocolAttributes ==
    {<<conventions.AttributeHTTPMethod, NewAttributeValueString("GET")>>,
     <<conventions.AttributeRPCSystem, NewAttributeValueString("grpc")>>,
     <<attributeDBSystem, NewAttributeValueString("mysql")>>,
     <<conventions.AttributeMessagingSystem, NewAttributeValueString("kafka")>>,
     <<conventions.AttributeFaaSTrigger, NewAttributeValueString("http")>>,
     <<"enduser.id", NewAttributeValueString("user")>>}
    \cup {<<conventions.AttributeHTTPStatusCode, NewAttributeValueInt(code)>> :
             code \in HTTPStatusCodes}

\* a caller has a record with a status and without attributes
ProtocolInput ==
    /\ translation.pc = "idle"
    /\ \E status \in {[isNil |-> TRUE, code |-> 0], [isNil |-> FALSE, code |-> 0],
                      [isNil |-> FALSE, code |-> 5]} :
          translation' = [fn |-> "logRecord", pc |-> "input",
                          in |-> [logRecord |-> [Name |-> "logName", Status |-> status,
                                                 Attributes |-> EmptyMap],
                                  incomingLogRecordType |-> "unknownLogRecordType"],
                          out |-> <<>>]
    /\ UNCHANGED <<calls, sent>>

\* logRecord.Attributes().Insert of a new key
InsertProtocolAttribute ==
    /\ translation.fn = "logRecord"
    /\ translation.pc = "input"
    /\ Cardinality(DOMAIN translation.in.logRecord.Attributes) < MaxAttributes
    /\ \E a \in ProtocolAttributes :
          /\ ~Exists(translation.in.logRecord.Attributes, a[1])
          /\ translation' = [translation EXCEPT !.in.logRecord.Attributes = Put(@, a[1], a[2])]
    /\ UNCHANGED <<calls, sent>>

\* the call of mapIncomingLogRecordToType on the attributes of the record
ClassifyCall ==
    /\ translation.fn = "logRecord"
    /\ translation.pc = "input"
    /\ translation' = [translation EXCEPT
                          !.fn = "mapIncomingLogRecordToType", !.pc = "done",
                          !.out = mapIncomingLogRecordToType(translation.in.logRecord.Attributes)]
    /\ UNCHANGED <<calls, sent>>

\* the call of logRecordToRequestData for a server record
RequestDataCall ==
    /\ translation.fn = "logRecord"
    /\ translation.pc = "input"
    /\ \E type \in {"httpLogRecordType", "unknownLogRecordType"} :
          translation' = [translation EXCEPT
                             !.fn = "logRecordToRequestData", !.pc = "done",
                             !.in.incomingLogRecordType = type,
                             !.out = logRecordToRequestData(translation.in.logRecord, type)]
    /\ UNCHANGED <<calls, sent>>

\* the call of logRecordToRemoteDependencyData for a client record
RemoteDependencyDataCall ==
    /\ translation.fn = "logRecord"
    /\ translation.pc = "input"
    /\ \E type \in {"httpLogRecordType", "unknownLogRecordType"} :
          translation' = [translation EXCEPT
                             !.fn = "logRecordToRemoteDependencyData", !.pc = "done",
                             !.in.incomingLogRecordType = type,
                             !.out = logRecordToRemoteDependencyData(translation.in.logRecord,
                                                                     type)]
    /\ UNCHANGED <<calls, sent>>

NextProtocol ==
    \/ ProtocolInput
    \/ InsertProtocolAttribute
    \/ ClassifyCall
    \/ RequestDataCall
    \/ RemoteDependencyDataCall

SpecProtocol == Init /\ [][NextProtocol]_vars

(***************************************************************************)
(* C26.  The protocol of a record is decided by the presence of            *)
(* attributes, in a fixed order of priority: with http.method it is HTTP   *)
(* whatever else the record carries; otherwise with rpc.system it is RPC;  *)
(* otherwise with db.system database; otherwise with messaging.system      *)
(* messaging; otherwise with faas.trigger faas; with none of them, or      *)
(* without attributes, it is unknown.                                      *)
(***************************************************************************)
C26_ProtocolByPriority ==
    (translation.fn = "mapIncomingLogRecordToType" /\ translation.pc = "done") =>
        LET keys == DOMAIN translation.in.logRecord.Attributes
            order == <<"http.method", "rpc.system", "db.system", "messaging.system",
                       "faas.trigger">>
            types == <<"httpLogRecordType", "rpcLogRecordType", "databaseLogRecordType",
                       "messagingLogRecordType", "faasLogRecordType">> IN
        /\ \A n \in 1..5 :
              (order[n] \in keys /\ \A m \in 1..(n - 1) : order[m] \notin keys) =>
                  translation.out = types[n]
        /\ (\A n \in 1..5 : order[n] \notin keys) => translation.out = "unknownLogRecordType"

\* a record with faas.trigger, db.system and rpc.system has been
\* classified RPC
C26_Witness ==
    /\ translation.fn = "mapIncomingLogRecordToType"
    /\ translation.pc = "done"
    /\ DOMAIN translation.in.logRecord.Attributes = {"faas.trigger", "db.system", "rpc.system"}
    /\ translation.out = "rpcLogRecordType"

\* a call of logRecordToRequestData or logRecordToRemoteDependencyData on a
\* record of type HTTP has returned
HTTPDataDone ==
    /\ translation.fn \in {"logRecordToRequestData", "logRecordToRemoteDependencyData"}
    /\ translation.pc = "done"
    /\ translation.in.incomingLogRecordType = "httpLogRecordType"

\* ResponseCode of a RequestData, ResultCode of a RemoteDependencyData
C27_Code ==
    IF translation.fn = "logRecordToRequestData" THEN translation.out.ResponseCode
    ELSE translation.out.ResultCode

\* the code and Success of the data returned are those of the status of
\* the record
C27_FromStatus ==
    LET status == translation.in.logRecord.Status IN
    IF status.isNil \/ status.code = 0
    THEN C27_Code = "0" /\ translation.out.Success
    ELSE C27_Code = ToString(status.code) /\ ~translation.out.Success

\* with the attribute http.status_code the code and Success of the data
\* returned are those of the attribute, when the override applies to it;
\* otherwise they are those of the status of the record
C27_ByStatusCode(overrides(_)) ==
    HTTPDataDone =>
        LET attrs == translation.in.logRecord.Attributes IN
        IF "http.status_code" \in DOMAIN attrs /\ overrides(attrs["http.status_code"].n)
        THEN LET code == attrs["http.status_code"].n IN
             /\ C27_Code = ToString(code)
             /\ translation.out.Success <=> (100 <= code /\ code <= 399)
        ELSE C27_FromStatus

(***************************************************************************)
(* C27 as stated.  Whenever the attribute http.status_code is present on   *)
(* an HTTP record, ResponseCode (server) or ResultCode (client) is the     *)
(* decimal string of the code and Success is true exactly when             *)
(* 100 <= code <= 399; when it is absent the values derived from the       *)
(* status of the record are kept.                                          *)
(***************************************************************************)
C27_OverrideWheneverPresent == C27_ByStatusCode(LAMBDA code : TRUE)

(***************************************************************************)
(* C27, amended.  When the attribute http.status_code is present on an     *)
(* HTTP record with an integer value other than 0, ResponseCode (server)   *)
(* or ResultCode (client) is the decimal string of the code and Success is *)
(* true exactly when 100 <= code <= 399; when it is absent, or present     *)
(* with the value 0, the values derived from the status of the record are  *)
(* kept.                                                                   *)
(***************************************************************************)
C27_OverrideWhenNonZero == C27_ByStatusCode(LAMBDA code : code # 0)

\* a server record with an error status and http.status_code 99 has the
\* response code "99" and is no success
C27_Witness ==
    /\ HTTPDataDone
    /\ translation.fn = "logRecordToRequestData"
    /\ ~translation.in.logRecord.Status.isNil
    /\ translation.in.logRecord.Status.code = 5
    /\ "http.status_code" \in DOMAIN translation.in.logRecord.Attributes
    /\ translation.out.ResponseCode = "99"
    /\ ~translation.out.Success

(***************************************************************************)
(* Calls of logRecordToEnvelope on a record, a body map and a resource     *)
(* that use the same keys, and keys the translator writes itself.          *)
(***************************************************************************)
\* where an entry is inserted, its key and its value
CollidingAttributes ==
    {<<"Attributes", "Message", NewAttributeValueString("attrMessage")>>,
     <<"Attributes", "SeverityText", NewAttributeValueString("attrSeverity")>>,
     <<"Attributes", "SeverityNumber", NewAttributeValueString("attrNumber")>>,
     <<"Attributes", "shared", NewAttributeValueString("fromAttributes")>>,
     <<"Attributes", "shared", NewAttributeValueInt(1)>>,
     <<"Attributes", instrumentationLibraryName, NewAttributeValueString("attrLib")>>,
     <<"Body", "Message", NewAttributeValueString("bodyMessage")>>,
     <<"Body", "shared", NewAttributeValueString("fromBody")>>,
     <<"Body", "shared", NewAttributeValueInt(2)>>,
     <<"Resource", "Message", NewAttributeValueString("resMessage")>>,
     <<"Resource", "SeverityText", NewAttributeValueString("resSeverity")>>,
     <<"Resource", "shared", NewAttributeValueString("fromResource")>>,
     <<"Resource", "shared", NewAttributeValueInt(3)>>,
     <<"Resource", instrumentationLibraryName, NewAttributeValueString("resLib")>>}

\* Attributes().Insert of a new key on the record, on its body (a map, or
\* not yet set) or on the resource
InsertCollidingAttribute ==
    /\ Building("logRecordToEnvelope")
    /\ \E a \in CollidingAttributes :
          LET in == translation.in IN
          \/ /\ a[1] = "Attributes"
             /\ ~Exists(in.logRecord.Attributes, a[2])
             /\ translation' = [translation EXCEPT
                                   !.in.logRecord.Attributes = Put(@, a[2], a[3])]
          \/ /\ a[1] = "Body"
             /\ in.logRecord.Body.type \in {"NULL", "MAP"}
             /\ ~Exists(in.logRecord.Body.m, a[2])
             /\ translation' = [translation EXCEPT
                                   !.in.logRecord.Body =
                                       NewAttributeValueMap(Put(@.m, a[2], a[3]))]
          \/ /\ a[1] = "Resource"
             /\ ~Exists(in.resource.Attributes, a[2])
             /\ translation' = [translation EXCEPT
                                   !.in.resource.Attributes = Put(@, a[2], a[3])]
    /\ UNCHANGED <<calls, sent>>

NextCollide ==
    \/ LogInput
    \/ SetLogRecordField
    \/ InsertCollidingAttribute
    \/ SetInstrumentationLibrary
    \/ LogCall

SpecCollide == Init /\ [][NextCollide]_vars

\* the entries of an attribute map that are written to Properties (strings
\* and bools), as strings
C30_Strings(attributeMap) ==
    [k \in {key \in DOMAIN attributeMap : attributeMap[key].type \in {"STRING", "BOOL"}}
        |-> AsString(attributeMap[k])]

\* ... and those written to Measurements (ints and doubles), as doubles
C30_Doubles(attributeMap) ==
    [k \in {key \in DOMAIN attributeMap : attributeMap[key].type \in {"INT", "DOUBLE"}}
        |-> AsDouble(attributeMap[k])]

\* what each source writes to Properties, in the order of the writes:
\* record attributes, body, severity, resource attributes, library
C30_PropertyWriters ==
    LET in == translation.in
        body == in.logRecord.Body
        il == in.instrumentationLibrary IN
    <<C30_Strings(in.logRecord.Attributes),
      IF body.type = "MAP" THEN C30_Strings(body.m)
      ELSE [k \in {"Message"} |-> translation.out[1].Data.BaseData.Properties["Message"]],
      [k \in {"SeverityText", "SeverityNumber"} |->
          IF k = "SeverityText" THEN SeverityTextString(in.logRecord.SeverityText)
          ELSE ToString(in.logRecord.SeverityNumber)],
      C30_Strings(in.resource.Attributes),
      [k \in {key \in {"instrumentationlibrary.name", "instrumentationlibrary.version"} :
                 /\ ~il.isNil
                 /\ (IF key = "instrumentationlibrary.name" THEN il.Name ELSE il.Version) # ""}
          |-> IF k = "instrumentationlibrary.name" THEN il.Name ELSE il.Version]>>

\* ... and to Measurements
C30_MeasurementWriters ==
    LET in == translation.in IN
    <<C30_Doubles(in.logRecord.Attributes),
      IF in.logRecord.Body.type = "MAP" THEN C30_Doubles(in.logRecord.Body.m) ELSE <<>>,
      C30_Doubles(in.resource.Attributes)>>

\* the map that holds, for every key some writer writes, the value of the
\* last writer that writes it
C30_LastWriterWins(writers) ==
    [k \in UNION {DOMAIN writers[n] : n \in 1..Len(writers)} |->
        LET last == CHOOSE n \in 1..Len(writers) :
                        /\ k \in DOMAIN writers[n]
                        /\ \A m \in (n + 1)..Len(writers) : k \notin DOMAIN writers[m] IN
        writers[last][k]]

\* the EventData of the call is the one the order of the writes gives
C30_Precedence ==
    /\ LogData.Properties = C30_LastWriterWins(C30_PropertyWriters)
    /\ LogData.Measurements = C30_LastWriterWins(C30_MeasurementWriters)

\* a later writer writes the key k to Properties
C30_Overwritten(k) == \E n \in 2..5 : k \in DOMAIN C30_PropertyWriters[n]

(***************************************************************************)
(* C30 as stated.  In an EventData of a log record the Properties are      *)
(* written in the order record attributes, body (map entries or            *)
(* "Message"), SeverityText and SeverityNumber, resource attributes,       *)
(* instrumentation-library name and version, a later write replacing an    *)
(* earlier one: the final value of a key is that of its last writer, and a *)
(* record attribute named SeverityText, SeverityNumber or Message is       *)
(* always replaced.                                                        *)
(***************************************************************************)
C30_ReservedKeysNeverSurvive ==
    (LogDone /\ LogData.BaseType = "EventData") =>
        /\ C30_Precedence
        /\ \A k \in {"SeverityText", "SeverityNumber", "Message"} :
              k \in DOMAIN C30_PropertyWriters[1] => C30_Overwritten(k)

(***************************************************************************)
(* C30, amended.  In an EventData of a log record Properties holds, for    *)
(* every key, the value of the last writer in the order record attributes  *)
(* (strings and bools), body (string and bool entries of a map body, or    *)
(* "Message" for any other body), SeverityText and SeverityNumber,         *)
(* resource attributes (strings and bools), instrumentation-library name   *)
(* and version; Measurements holds the int and double entries of the same  *)
(* sources in the same order.  A record attribute named SeverityText or    *)
(* SeverityNumber is always replaced; one named Message is replaced unless *)
(* the body is a map and neither the body nor the resource has a string or *)
(* bool entry named Message, and then it stays in Properties.              *)
(***************************************************************************)
C30_KeyCollisionPrecedence ==
    (LogDone /\ LogData.BaseType = "EventData") =>
        LET attrs == translation.in.logRecord.Attributes
            body == translation.in.logRecord.Body
            res == translation.in.resource.Attributes
            isString(m, k) == k \in DOMAIN m /\ m[k].type \in {"STRING", "BOOL"} IN
        /\ C30_Precedence
        /\ \A k \in {"SeverityText", "SeverityNumber"} :
              isString(attrs, k) => C30_Overwritten(k)
        /\ isString(attrs, "Message") =>
              IF body.type = "MAP" /\ ~isString(body.m, "Message") /\ ~isString(res, "Message")
              THEN LogData.Properties["Message"] = AsString(attrs["Message"])
              ELSE C30_Overwritten("Message")

\* the key shared is a string attribute of the record, a string entry of
\* the body and a string attribute of the resource, and the resource has
\* an attribute named SeverityText: Properties holds the resource's values
C30_Witness ==
    /\ LogDone
    /\ LogData.BaseType = "EventData"
    /\ "shared" \in DOMAIN C30_PropertyWriters[1]
    /\ "shared" \in DOMAIN C30_PropertyWriters[2]
    /\ LogData.Properties["shared"] = "fromResource"
    /\ LogData.Properties["SeverityText"] = "resSeverity"

(***************************************************************************)
(* Sanitization.  The last step of both translators hands each sanitizer   *)
(* of an envelope to sanitize, which calls it and forwards the warnings it *)
(* returns to the logger.  What a sanitizer returns is decided by the      *)
(* contracts library: here any list of warnings, MaxWarnings in all.       *)
(***************************************************************************)
MaxWarnings == 3

\* mutant: only the first warning of a sanitizer is logged
sanitizeWithCallback_FirstWarningOnly(sanitizeWarnings, warningCallback, logger) ==
    IF sanitizeWarnings = <<>> THEN logger ELSE Append(logger, Head(sanitizeWarnings))

\* sanitizeWarnings is what sanitizeFunc() returned, logger the warnings
\* logged so far; a callback, when there is one, takes the warnings instead
sanitizeWithCallback(sanitizeWarnings, warningCallback, logger) ==
    IF warningCallback = "nil" THEN logger \o sanitizeWarnings ELSE logger

sanitize(sanitizeWarnings, logger) == sanitizeWithCallback(sanitizeWarnings, "nil", logger)

\* the sanitizers logRecordToEnvelope runs on its envelope, in order: data
\* is the Data wrapper, data.BaseData the MessageData or EventData
logRecordToEnvelopeSanitizers ==
    <<"data.Sanitize", "data.BaseData.Sanitize", "envelope.Sanitize",
      "contracts.SanitizeTags">>

\* the sanitizers metricToEnvelopes runs on each of its envelopes, in
\* order: data is the MetricData
metricToEnvelopesSanitizers ==
    <<"data.Sanitize", "envelope.Sanitize", "contracts.SanitizeTags">>

\* the calls of sanitize of a translator that finalizes n envelopes
sanitizerCalls(translator, n) ==
    LET sanitizers == IF translator = "logRecordToEnvelope" THEN logRecordToEnvelopeSanitizers
                      ELSE metricToEnvelopesSanitizers
        each == Len(sanitizers) IN
    [c \in 1..(n * each) |->
        [envelope |-> ((c - 1) \div each) + 1, sanitizer |-> sanitizers[((c - 1) % each) + 1]]]

\* the logger after the calls of sanitize from call c on; warnings[c] is
\* what the sanitizer of call c returns
RECURSIVE sanitizeAll(_, _, _)
sanitizeAll(warnings, c, logger) ==
    IF c > Len(warnings) THEN logger
    ELSE sanitizeAll(warnings, c + 1, sanitize(warnings[c], logger))

\* a translator is about to finalize its envelopes: one of a log record,
\* one or two of a metric
SanitizeInput ==
    /\ translation.pc = "idle"
    /\ \E translator \in {"logRecordToEnvelope", "metricToEnvelopes"}, n \in {1, 2} :
          /\ translator = "logRecordToEnvelope" => n = 1
          /\ translation' =
                [fn |-> "sanitize", pc |-> "input",
                 in |-> [translator |-> translator, envelopes |-> n,
                         warnings |-> [c \in 1..Len(sanitizerCalls(translator, n)) |-> <<>>]],
                 out |-> <<>>]
    /\ UNCHANGED <<calls, sent>>

\* the sanitizer of one of the calls is to return one warning more
ReturnWarning ==
    /\ translation.fn = "sanitize"
    /\ translation.pc = "input"
    /\ LET warnings == translation.in.warnings
           total == Len(sanitizeAll(warnings, 1, <<>>)) IN
       /\ total < MaxWarnings
       /\ \E c \in 1..Len(warnings) :
             translation' = [translation EXCEPT
                                !.in.warnings[c] = Append(@, "warning " \o ToString(total + 1))]
    /\ UNCHANGED <<calls, sent>>

\* visit: the translator runs its sanitizers and returns with a nil error,
\* and the visitor, finding no error, hands the envelope to Send
SanitizedVisit ==
    /\ translation.fn = "sanitize"
    /\ translation.pc = "input"
    /\ \E exporter \in Exporters :
          LET in == translation.in
              err == NoError
              v == IF in.translator = "logRecordToEnvelope"
                   THEN logVisitorVisit(NewVisitor, exporter.config, NilRecord)
                   ELSE metricVisitorVisit(NewVisitor, exporter.config, NilRecord) IN
          /\ translation' = [translation EXCEPT
                                !.pc = "done",
                                !.out = [called |-> sanitizerCalls(in.translator, in.envelopes),
                                         logger |-> sanitizeAll(in.warnings, 1, <<>>),
                                         err |-> err,
                                         ok |-> v.ok]]
          /\ sent' = IF err.isNil THEN sent \o Sends(1, calls[1], v.send) ELSE sent
    /\ UNCHANGED calls

NextSanitize ==
    \/ SanitizeInput
    \/ ReturnWarning
    \/ SanitizedVisit

SpecSanitize == Init /\ [][NextSanitize]_vars

SanitizeDone == translation.fn = "sanitize" /\ translation.pc = "done"

\* what a sanitizer of a translator sanitizes
C24_Kind(translator, sanitizer) ==
    CASE sanitizer = "data.Sanitize" ->
            IF translator = "logRecordToEnvelope" THEN "wrapper" ELSE "payload"
      [] sanitizer = "data.BaseData.Sanitize" -> "payload"
      [] sanitizer = "envelope.Sanitize" -> "envelope"
      [] sanitizer = "contracts.SanitizeTags" -> "tags"

\* the sanitizers that ran on envelope e, in order
C24_RunOn(e) ==
    LET on == SelectSeq(translation.out.called, LAMBDA call : call.envelope = e) IN
    [i \in 1..Len(on) |-> C24_Kind(translation.in.translator, on[i].sanitizer)]

\* every warning a sanitizer returned is in the logger once, and nothing else is
C24_LoggedOnce ==
    LET warnings == translation.in.warnings
        logger == translation.out.logger
        returned == UNION {Range(warnings[c]) : c \in 1..Len(warnings)} IN
    /\ Range(logger) = returned
    /\ Len(logger) = Cardinality(returned)
    /\ \A c \in 1..Len(warnings) : \A i, j \in 1..Len(warnings[c]) :
          i < j => \E a, b \in 1..Len(logger) :
                      a < b /\ logger[a] = warnings[c][i] /\ logger[b] = warnings[c][j]

\* the translator returned no error and the visitor handed to Send
C24_NeverAnError ==
    /\ translation.out.err.isNil
    /\ translation.out.ok
    /\ Len(sent) = 1

Metrics ==
    LET metric(isNil, dataType, dataNil, dps) ==
            [kind |-> "rec"] @@ [EmptyMetric(isNil, dataType, dataNil) EXCEPT !.DataPoints = dps]
        bucketed == [NewDataPoint("IntHistogram", 1, 2) EXCEPT !.BucketCounts = <<1>>] IN
    {metric(TRUE, "None", TRUE, <<>>),
     metric(FALSE, "None", TRUE, <<>>),
     metric(FALSE, "IntGauge", TRUE, <<>>),
     metric(FALSE, "IntGauge", FALSE, <<NewDataPoint("IntGauge", 1, 2)>>),
     metric(FALSE, "DoubleSum", FALSE, <<NilDataPoint, NewDataPoint("DoubleSum", 1, 3)>>),
     metric(FALSE, "IntHistogram", FALSE, <<bucketed>>)}

\* the local variable dropped of metricToEnvelopes when it returns; no
\* return statement of the function returns it
metricToEnvelopesDropped(metric) ==
    IF metric.isNil THEN 1
    ELSE IF metric.DataType \notin (GaugeAndSumTypes \cup HistogramTypes) THEN 1
    ELSE IF metric.dataNil THEN 1
    ELSE Len(SelectSeq(metric.DataPoints, LAMBDA dp : dp.isNil))

\* the caller appends a metric to the last library element of its batch
AppendMetric(c) ==
    LET f == calls[c]
        i == Len(f.batch)
        j == IF i > 0 THEN Len(f.batch[i].ils) ELSE 0 IN
    /\ f.pc = "idle"
    /\ Nodes(f.batch) < MaxNodes
    /\ j > 0
    /\ ~f.batch[i].ils[j].isNil
    /\ \E metric \in Metrics :
          calls' = [calls EXCEPT ![c].batch[i].ils[j].recs = Append(@, metric)]
    /\ UNCHANGED <<sent, translation>>

NextMetricExport ==
    \/ AppendResourceElement(1)
    \/ AppendLibraryElement(1)
    \/ AppendMetric(1)
    \/ onMetricData(1)
    \/ VisitMetric(1)

SpecMetricExport == Init /\ [][NextMetricExport]_vars

MetricExportDone ==
    /\ calls[1].facade = "metric"
    /\ calls[1].pc = "done"
    /\ calls[1].result.returned

\* the leaf slots of a batch that MetricCount counts and AcceptMetrics
\* reaches: those of a present library of a resource element with a Resource
C21_Reached(b) ==
    {p \in LeafSlots(b) : ~b[p[1]].isNil /\ ~b[p[1]].resourceNil /\ ~b[p[1]].ils[p[2]].isNil}

RECURSIVE C21_Dropped(_, _)
C21_Dropped(b, ps) ==
    IF ps = {} THEN 0
    ELSE LET p == CHOOSE q \in ps : TRUE IN
         metricToEnvelopesDropped(RecordAt(b, p)) + C21_Dropped(b, ps \ {p})

\* C21: a metric of unknown data type, an absent metric and an absent data
\* point each emit no envelope and no error and each add one to the dropped
\* count, and the dropped count onMetricData returns for the batch includes
\* them.  The count of the translator is a local variable that is never
\* returned, and visit counts every metric it is given as processed.
C21_SilentDropsCounted ==
    MetricExportDone =>
        LET f == calls[1] IN
        /\ f.result.err.isNil
        /\ \A p \in C21_Reached(f.batch) :
              LET metric == RecordAt(f.batch, p) IN
              (metric.isNil \/ metric.DataType = "None") =>
                  metricToEnvelopes(EmptyResource, NilInstrumentationLibrary, metric) = <<>>
        /\ f.result.dropped >= C21_Dropped(f.batch, C21_Reached(f.batch))

\* C22: for every metric it visits the metric facade hands to Send every
\* envelope the translator produced for the metric, none, one or many, in
\* order, before it returns; the Send calls of a call are as many as the
\* envelopes of the visited metrics.  visit calls Send once per metric.
C22_EveryEnvelopeSent ==
    MetricExportDone =>
        LET f == calls[1] IN
        /\ Increasing(f.visited)
        /\ \A n \in 1..Len(f.visited) :
              LET p == f.visited[n]
                  envelopes == metricToEnvelopes(EmptyResource, NilInstrumentationLibrary,
                                                 RecordAt(f.batch, p)) IN
              Len(SelectSeq(SentBy(1), LAMBDA e : e.pos = p)) = Len(envelopes)
        /\ \A n \in 1..Len(SentBy(1)) : \E m \in 1..Len(f.visited) : SentBy(1)[n].pos = f.visited[m]

(***************************************************************************)
(* Concurrent calls.  The host calls onLogData and onMetricData from       *)
(* several tasks; here two calls, each on its own batch of up to           *)
(* MaxConcurrentRecords records, take their steps in any interleaving.     *)
(* All they share is the transport channel, to which each Send appends.    *)
(***************************************************************************)
MaxConcurrentRecords == 2

\* the host hands a batch to task c: one resource element with one
\* instrumentation-library element and its records
ReceiveBatch(c) ==
    /\ calls[c].pc = "idle"
    /\ calls[c].batch = <<>>
    /\ \E n \in 0..MaxConcurrentRecords : \E recs \in [1..n -> Records] :
          calls' = [calls EXCEPT ![c].batch =
                       <<[EmptyResourceElement(FALSE) EXCEPT
                             !.ils = <<[EmptyLibrary EXCEPT !.recs = recs]>>]>>]
    /\ UNCHANGED <<sent, translation>>

NextConcurrent ==
    \E c \in Calls :
        \/ ReceiveBatch(c)
        \/ onLogData(c)
        \/ onMetricData(c)
        \/ VisitLog(c)
        \/ VisitMetric(c)

SpecConcurrent == Init /\ [][NextConcurrent]_vars

\* the frame with which call c entered its facade, from its arguments
C25_Entered(f) ==
    IF (IF f.facade = "log" THEN onLogDataEntry(f.cancelled, LogRecordCount(f.batch))
        ELSE onMetricDataEntry(f.cancelled, MetricCount(f.batch))) = "return"
    THEN [IdleCall EXCEPT !.pc = "done", !.facade = f.facade, !.driver = f.driver,
                          !.exporter = f.exporter, !.batch = f.batch,
                          !.cancelled = f.cancelled,
                          !.result = [NoResult EXCEPT !.returned = TRUE]]
    ELSE Started(f.facade, f.driver, f.exporter, f.batch, f.cancelled, 0,
                 IF f.facade = "log" THEN LogRecordCount(f.batch) ELSE MetricCount(f.batch))

\* call c run alone from frame f on, to its return: the result it returns
\* and the envelopes it hands to Send after sends, in order
RECURSIVE C25_Alone(_, _, _)
C25_Alone(c, f, sends) ==
    IF f.pc = "done" THEN [result |-> f.result, sends |-> sends]
    ELSE LET rec == f.batch[f.i].ils[f.j].recs[f.k]
             r == IF f.facade = "log" THEN logVisitorVisit(f.visitor, f.exporter.config, rec)
                  ELSE metricVisitorVisit(f.visitor, f.exporter.config, rec) IN
         C25_Alone(c, Visited([f EXCEPT !.visitor = r.v], r.ok), sends \o Sends(c, f, r.send))

\* C25: two facade calls that run interleaved are independent: at every
\* moment the envelopes a call has handed to Send are the first of those it
\* hands to Send when it runs alone on its batch, and when it has returned
\* they are all of them and its (dropped, err) is what it returns alone.
C25_ConcurrentCallsIndependent ==
    \A c \in Calls :
        IsFacade(calls[c]) =>
            LET alone == C25_Alone(c, C25_Entered(calls[c]), <<>>) IN
            /\ Len(SentBy(c)) <= Len(alone.sends)
            /\ SentBy(c) = SubSeq(alone.sends, 1, Len(SentBy(c)))
            /\ calls[c].pc = "done" =>
                  /\ SentBy(c) = alone.sends
                  /\ calls[c].result = alone.result

\* a log call and a metric call, each of two records, have both returned
\* and their sends alternated on the transport channel
C25_Witness ==
    /\ calls[1].facade = "log" /\ calls[2].facade = "metric"
    /\ calls[1].pc = "done" /\ calls[2].pc = "done"
    /\ calls[1].result.dropped = 0 /\ calls[2].result.dropped = 0
    /\ Len(sent) = 4
    /\ sent[1].call = 1 /\ sent[2].call = 2 /\ sent[3].call = 1 /\ sent[4].call = 2

====
